---- MODULE Spec2Model ----
(***************************************************************************)
(* Model of ClusterCdkStack / ComputeFleetConstruct                        *)
(* (cli/src/pcluster/templates/cluster_stack.py): the synthesis of the     *)
(* cluster resource graph and of the bootstrap payloads from a cluster     *)
(* configuration.  One synthesis run is a state machine whose program      *)
(* counter walks the statements of ClusterCdkStack.__init__ and            *)
(* _add_resources in source order.                                         *)
(*                                                                         *)
(* Python values are tagged records (None, bool, int, str, resource ref);  *)
(* a Python string is a sequence of tokens, "," being a token of its own,  *)
(* so that joining and splitting option strings is computed, not assumed.  *)
(* Resource (construct) ids are TLA+ strings.                              *)
(***************************************************************************)
EXTENDS Naturals, Sequences, FiniteSets, TLC

VARIABLES
    config,                    \* self.config (a mutable Python object graph)
    existing_mount_targets,    \* cloud inventory: {<<file system id, az>>}
    pc,                        \* statement of __init__/_add_resources reached
    storage_index,             \* position of the loop over config.shared_storage
    nodes,                     \* constructs of the stack, in creation order
    deps,                      \* explicit dependency edges <<from id, to id>>
    head_security_group,       \* self._head_security_group
    compute_security_group,    \* self._compute_security_group
    shared_storage_mappings,   \* self.shared_storage_mappings
    shared_storage_options,    \* self.shared_storage_options
    shared_storage_attributes, \* self.shared_storage_attributes[FSX]
    scheduler_resources,       \* self.scheduler_resources
    compute_fleet_resources,   \* self.compute_fleet_resources
    byos_stack,                \* self.byos_stack
    cleanup_lambda_role,       \* the managed cleanup role, None if user supplied
    role_statements,           \* policy statement sids of the managed cleanup role
    head_dna,                  \* "cluster" section of the head node dna.json
    api_calls,                 \* AWSApi calls made by the synthesis, in order
    api_queries,               \* queries AWSApi issued to the cloud, in order
    error,                     \* exception that aborted the synthesis, if any
    run,                       \* this call of __init__: its number, clock and
                               \* log_group_name argument, and the payloads of
                               \* the call before
    faults                     \* what goes wrong outside the synthesis: the
                               \* inventory lookups that raise, and what
                               \* apply_permissions_boundary does

vars == <<config, existing_mount_targets, pc, storage_index, nodes, deps,
          head_security_group, compute_security_group,
          shared_storage_mappings, shared_storage_options,
          shared_storage_attributes, scheduler_resources,
          compute_fleet_resources, byos_stack, cleanup_lambda_role,
          role_statements, head_dna, api_calls, api_queries, error, run, faults>>

\* ------------------------------------------------------------------ bounds

MaxQueues == 2
MaxStorage == 2
MaxInterfaces == 3

\* ----------------------------------------------------------- Python values

PyNone == [t |-> "none"]
PyBool(b) == [t |-> "bool", v |-> b]
PyInt(n) == [t |-> "int", v |-> n]
PyStr(s) == [t |-> "str", v |-> <<s>>]
\* a str of several tokens, e.g. one that contains a comma
PyToks(toks) == [t |-> "str", v |-> toks]
\* CfnResource.ref / attr_*: a token naming the resource
Ref(id) == [t |-> "ref", v |-> id]
Attr(id, a) == [t |-> "ref", v |-> id \o "." \o a]

IsNone(x) == x.t = "none"

\* Python truthiness, as used by `not x`, `x or y`, `if x`
Truthy(x) ==
    CASE x.t = "none" -> FALSE
      [] x.t = "bool" -> x.v
      [] x.t = "int" -> x.v # 0
      [] x.t = "str" -> x.v # <<>>
      [] OTHER -> TRUE

\* `x or y`
Or(x, y) == IF Truthy(x) THEN x ELSE y

\* str(x)
Str(x) ==
    CASE x.t = "none" -> <<"None">>
      [] x.t = "bool" -> IF x.v THEN <<"True">> ELSE <<"False">>
      [] x.t = "int" -> <<ToString(x.v)>>
      [] x.t = "str" -> x.v
      [] OTHER -> <<"${" \o x.v \o "}">>

NONE == PyStr("NONE")

EmptyStr == PyToks(<<>>)

\* ",".join(str(item) for item in items)
RECURSIVE Join(_)
Join(items) ==
    IF items = <<>> THEN <<>>
    ELSE IF Len(items) = 1 THEN Str(items[1])
    ELSE Str(items[1]) \o <<",">> \o Join(Tail(items))

\* s.split(","): the fields of an option string
RECURSIVE SplitFrom(_, _)
SplitFrom(s, cur) ==
    IF s = <<>> THEN <<cur>>
    ELSE IF Head(s) = "," THEN <<cur>> \o SplitFrom(Tail(s), <<>>)
    ELSE SplitFrom(Tail(s), Append(cur, Head(s)))

Split(s) == SplitFrom(s, <<>>)

\* number of occurrences of k in the sequence s
RECURSIVE Count(_, _)
Count(s, k) ==
    IF s = <<>> THEN 0
    ELSE (IF Head(s) = k THEN 1 ELSE 0) + Count(Tail(s), k)

Range(s) == {s[i] : i \in 1..Len(s)}

\* sequences over S of length lo..hi
SeqsOf(S, lo, hi) == UNION {[1..n -> S] : n \in lo..hi}

\* ------------------------------------------------------ cloud inventory

Subnets == {"subnet-a1", "subnet-a2", "subnet-b1"}

\* the availability zone the cloud reports for a subnet
SubnetAvailZone(subnet_id) ==
    IF subnet_id \in {"subnet-a1", "subnet-a2"} THEN "az-a" ELSE "az-b"

ExistingEfsId == "fs-existing"

\* the mount targets the cloud may already hold for the existing file system
MountTargetInventories == SUBSET {<<ExistingEfsId, "az-a">>, <<ExistingEfsId, "az-b">>}

\* ------------------------------------------------- configuration inputs

Schedulers == {"slurm", "awsbatch", "byos"}

\* efa: None, or [enabled]
NoEfa == [present |-> FALSE, enabled |-> FALSE]
EfaDisabled == [present |-> TRUE, enabled |-> FALSE]
EfaEnabled == [present |-> TRUE, enabled |-> TRUE]

MkComputeResource(name, instance_type, efa, max_network_interface_count) ==
    [name |-> name,
     instance_type |-> instance_type,
     efa |-> efa,
     max_network_interface_count |-> max_network_interface_count]

\* placement_group: None, or [enabled, id]
NoPlacementGroup == [present |-> FALSE, enabled |-> FALSE, id |-> PyNone]
ManagedPlacementGroup == [present |-> TRUE, enabled |-> TRUE, id |-> PyNone]
SuppliedPlacementGroup == [present |-> TRUE, enabled |-> TRUE, id |-> PyStr("pg-user")]
DisabledPlacementGroup == [present |-> TRUE, enabled |-> FALSE, id |-> PyStr("pg-off")]

MkQueue(name, security_groups, subnet_id, assign_public_ip, placement_group, compute_resources) ==
    [name |-> name,
     security_groups |-> security_groups,
     subnet_id |-> subnet_id,
     assign_public_ip |-> assign_public_ip,
     placement_group |-> placement_group,
     compute_resources |-> compute_resources]

QueueNames == <<"q1", "q2", "q3">>

\* queue i of a configuration, from its choice of security groups and subnet
QueueShape(i, own_sg, subnet_id) ==
    MkQueue(QueueNames[i],
            IF own_sg THEN <<PyStr("sg-" \o QueueNames[i])>> ELSE <<>>,
            subnet_id,
            PyNone,
            CASE i = 1 -> ManagedPlacementGroup
              [] i = 2 -> NoPlacementGroup
              [] OTHER -> SuppliedPlacementGroup,
            IF i = 2
            THEN <<MkComputeResource("cr1", "c5.xlarge", NoEfa, 1),
                   MkComputeResource("cr2", "p4d.24xlarge", EfaEnabled, 2)>>
            ELSE <<MkComputeResource("cr1", "c5.xlarge", NoEfa, 1)>>)

\* queue lists of 1..MaxQueues queues: whether each queue supplies its own
\* security groups is drawn from Own, its subnet from S
QueueLists(Own, S) ==
    {[i \in 1..n |-> QueueShape(i, own[i], sub[i])] :
        <<n, own, sub>> \in UNION {{n} \X [1..n -> Own] \X [1..n -> S] : n \in 1..MaxQueues}}

RECURSIVE Flatten(_)
Flatten(ss) == IF ss = <<>> THEN <<>> ELSE Head(ss) \o Flatten(Tail(ss))

MkConfig(scheduler, byos_template, head_sgs, head_additional_sgs, head_subnet, elastic_ip, lambda_role, queues, shared_storage) ==
    [scheduler |-> scheduler,
     byos_template |-> byos_template,
     head_node |-> [security_groups |-> head_sgs,
                    additional_security_groups |-> head_additional_sgs,
                    subnet_id |-> head_subnet,
                    elastic_ip |-> elastic_ip,
                    max_network_interface_count |-> 2],
     lambda_functions_role |-> lambda_role,
     is_cw_logging_enabled |-> TRUE,
     iam |-> [present |-> TRUE, permissions_boundary |-> PyNone],
     queues |-> queues,
     compute_subnet_ids |-> [i \in 1..Len(queues) |-> queues[i].subnet_id],
     compute_security_groups |-> Flatten([i \in 1..Len(queues) |-> queues[i].security_groups]),
     shared_storage |-> shared_storage]

\* ----------------------------------------------- storage declarations

\* SharedFsx with every optional field unset: a file system to create
FsxUnset ==
    [shared_storage_type |-> "FSX",
     name |-> PyStr("fsx"),
     mount_dir |-> PyStr("/fsx"),
     file_system_id |-> PyNone,
     storage_capacity |-> PyNone,
     kms_key_id |-> PyNone,
     imported_file_chunk_size |-> PyNone,
     export_path |-> PyNone,
     import_path |-> PyNone,
     weekly_maintenance_start_time |-> PyNone,
     deployment_type |-> PyNone,
     per_unit_storage_throughput |-> PyNone,
     daily_automatic_backup_start_time |-> PyNone,
     automatic_backup_retention_days |-> PyNone,
     copy_tags_to_backups |-> PyNone,
     backup_id |-> PyNone,
     auto_import_policy |-> PyNone,
     fsx_storage_type |-> PyNone,
     drive_cache_type |-> PyNone,
     data_compression_type |-> PyNone,
     existing_mount_name |-> PyNone,
     existing_dns_name |-> PyNone]

\* SharedFsx with every optional field set, on HDD storage
FsxAllSet ==
    [FsxUnset EXCEPT
     !.storage_capacity = PyInt(1200),
     !.kms_key_id = PyStr("kms-1"),
     !.imported_file_chunk_size = PyInt(1024),
     !.export_path = PyStr("s3://bucket/export"),
     !.import_path = PyStr("s3://bucket"),
     !.weekly_maintenance_start_time = PyStr("1:00:00"),
     !.deployment_type = PyStr("PERSISTENT_1"),
     !.per_unit_storage_throughput = PyInt(12),
     !.daily_automatic_backup_start_time = PyStr("01:03"),
     !.automatic_backup_retention_days = PyInt(3),
     !.copy_tags_to_backups = PyBool(TRUE),
     !.backup_id = PyStr("backup-1"),
     !.auto_import_policy = PyStr("NEW"),
     !.fsx_storage_type = PyStr("HDD"),
     !.drive_cache_type = PyStr("READ"),
     !.data_compression_type = PyStr("LZ4")]

FsxDeclarations ==
    {FsxUnset,
     FsxAllSet,
     \* an existing file system, whose mount and DNS names the config looked up
     [FsxUnset EXCEPT !.file_system_id = PyStr("fs-lustre"),
                      !.existing_mount_name = PyStr("mnt"),
                      !.existing_dns_name = PyStr("fs-lustre.fsx.aws")],
     \* SSD storage, copy_tags_to_backups explicitly off, no automatic backups
     [FsxUnset EXCEPT !.storage_capacity = PyInt(1200),
                      !.fsx_storage_type = PyStr("SSD"),
                      !.drive_cache_type = PyStr("READ"),
                      !.copy_tags_to_backups = PyBool(FALSE),
                      !.automatic_backup_retention_days = PyInt(0)],
     \* HDD storage without a drive cache
     [FsxUnset EXCEPT !.storage_capacity = PyInt(6000),
                      !.fsx_storage_type = PyStr("HDD")]}

\* SharedEfs with every optional field unset: a file system to create
EfsUnset ==
    [shared_storage_type |-> "EFS",
     name |-> PyStr("efs"),
     mount_dir |-> PyStr("/efs"),
     file_system_id |-> PyNone,
     encrypted |-> PyNone,
     kms_key_id |-> PyNone,
     performance_mode |-> PyNone,
     provisioned_throughput |-> PyNone,
     throughput_mode |-> PyNone]

\* an existing file system
EfsExisting == [EfsUnset EXCEPT !.file_system_id = PyStr(ExistingEfsId), !.encrypted = PyBool(FALSE)]

EfsDeclarations ==
    {EfsUnset,
     EfsExisting,
     [EfsUnset EXCEPT !.encrypted = PyBool(TRUE),
                      !.kms_key_id = PyStr("kms-2"),
                      !.performance_mode = PyStr("maxIO"),
                      !.provisioned_throughput = PyInt(200),
                      !.throughput_mode = PyStr("provisioned")]}

\* SharedEbs with every optional field unset: a volume to create
EbsUnset ==
    [shared_storage_type |-> "EBS",
     name |-> PyStr("ebs"),
     mount_dir |-> PyStr("/ebs"),
     volume_id |-> PyNone,
     volume_type |-> PyStr("gp2"),
     size |-> PyInt(20),
     iops |-> PyNone,
     throughput |-> PyNone,
     encrypted |-> PyNone,
     kms_key_id |-> PyNone,
     snapshot_id |-> PyNone,
     raid |-> [number_of_volumes |-> 0, raid_type |-> PyNone]]

EbsDeclarations ==
    {EbsUnset,
     [EbsUnset EXCEPT !.mount_dir = PyStr("/vol"), !.volume_id = PyStr("vol-existing")]}

RaidDeclarations ==
    {[EbsUnset EXCEPT !.shared_storage_type = "RAID",
                      !.mount_dir = PyStr("/raid"),
                      !.raid = [number_of_volumes |-> 2, raid_type |-> PyInt(0)]],
     [EbsUnset EXCEPT !.shared_storage_type = "RAID",
                      !.mount_dir = PyStr("/raid1"),
                      !.volume_type = PyStr("gp3"),
                      !.iops = PyInt(3000),
                      !.throughput = PyInt(125),
                      !.encrypted = PyBool(FALSE),
                      !.kms_key_id = PyStr("kms-3"),
                      !.raid = [number_of_volumes |-> 1, raid_type |-> PyInt(1)]],
     \* a mount dir that contains a comma
     [EbsUnset EXCEPT !.shared_storage_type = "RAID",
                      !.mount_dir = PyToks(<<"/a", ",", "b">>),
                      !.encrypted = PyBool(TRUE),
                      !.raid = [number_of_volumes |-> 1, raid_type |-> PyInt(1)]]}

StorageDeclarations == FsxDeclarations \cup EfsDeclarations \cup EbsDeclarations \cup RaidDeclarations

SharedStorageTypes == {"EBS", "EFS", "FSX", "RAID"}

\* ------------------------------------------------------ resource graph

MkNode(id, scope, kind, props) == [id |-> id, scope |-> scope, kind |-> kind, props |-> props]

NodeKeys(ns) == {<<ns[i].scope, ns[i].id>> : i \in 1..Len(ns)}

HasNode(id) == \E i \in 1..Len(nodes) : nodes[i].id = id

NodesOfKind(kind) == {i \in 1..Len(nodes) : nodes[i].kind = kind}

NodesInScope(scope) == {i \in 1..Len(nodes) : nodes[i].scope = scope}

\* position of the node with this id in creation order (0: absent)
NodeIndex(id) == IF HasNode(id) THEN CHOOSE i \in 1..Len(nodes) : nodes[i].id = id ELSE 0

\* Construct.__init__ raises when its scope already holds a child of that id
DuplicateId(new_nodes) ==
    \/ \E i \in 1..Len(new_nodes) : <<new_nodes[i].scope, new_nodes[i].id>> \in NodeKeys(nodes)
    \/ \E i, j \in 1..Len(new_nodes) :
          i # j /\ new_nodes[i].scope = new_nodes[j].scope /\ new_nodes[i].id = new_nodes[j].id

\* the statement at pc adds new_nodes and new_deps and falls through to next_pc,
\* unless a construct id is taken, which aborts the synthesis
Emit(next_pc, new_nodes, new_deps) ==
    IF DuplicateId(new_nodes)
    THEN /\ pc' = "failed"
         /\ error' = "duplicate construct id"
         /\ UNCHANGED <<nodes, deps>>
    ELSE /\ pc' = next_pc
         /\ nodes' = nodes \o new_nodes
         /\ deps' = deps \cup new_deps
         /\ UNCHANGED error

\* ---------------------------------------------------------- log group

\* utcnow() at the first and at the second call of __init__
Clocks ==
    <<[seconds |-> "20211101120000", minutes |-> "202111011200"],
      [seconds |-> "20211101130500", minutes |-> "202111011305"]>>

\* the first call of __init__, with its log_group_name argument
FirstRun(log_group_name) ==
    [n |-> 1, clock |-> Clocks[1], log_group_name |-> log_group_name, previous |-> <<>>]

\* a log group name that is made anew whether or not one is passed in
LogGroupNameAlwaysNew ==
    PyStr("/aws/parallelcluster/stack-" \o run.clock.minutes)

\* self.log_group_name: the name passed in, or one with a timestamp suffix
LogGroupName ==
    IF Truthy(run.log_group_name)
    THEN run.log_group_name
    ELSE PyStr("/aws/parallelcluster/stack-" \o run.clock.minutes)

\* the template parameters; the log group one only if logging is enabled
_add_parameters ==
    /\ pc = "_add_parameters"
    /\ Emit("_add_cluster_log_group",
            <<MkNode("ClusterUser", "root", "Parameter", [default |-> PyStr("ec2-user")]),
              MkNode("ResourcesS3Bucket", "root", "Parameter", [default |-> PyStr("bucket")]),
              MkNode("ArtifactS3RootDirectory", "root", "Parameter",
                     [default |-> PyStr("artifacts")]),
              MkNode("Scheduler", "root", "Parameter", [default |-> PyStr(config.scheduler)]),
              MkNode("ConfigVersion", "root", "Parameter", [default |-> PyStr("version")])>>
            \o (IF config.is_cw_logging_enabled
                THEN <<MkNode("ClusterCWLogGroup", "root", "Parameter",
                              [default |-> LogGroupName])>>
                ELSE <<>>),
            {})
    /\ UNCHANGED <<config, existing_mount_targets, storage_index, head_security_group,
                   compute_security_group, shared_storage_mappings,
                   shared_storage_options, shared_storage_attributes,
                   scheduler_resources, compute_fleet_resources, byos_stack,
                   cleanup_lambda_role, role_statements, head_dna, api_calls,
                   api_queries, run, faults>>

\* self.log_group = self._add_cluster_log_group() if logging is enabled
_add_cluster_log_group ==
    /\ pc = "_add_cluster_log_group"
    /\ Emit("_add_security_groups",
            IF config.is_cw_logging_enabled
            THEN <<MkNode("CloudWatchLogGroup", "root", "LogGroup",
                          [log_group_name |-> LogGroupName])>>
            ELSE <<>>,
            {})
    /\ UNCHANGED <<config, existing_mount_targets, storage_index, head_security_group,
                   compute_security_group, shared_storage_mappings,
                   shared_storage_options, shared_storage_attributes,
                   scheduler_resources, compute_fleet_resources, byos_stack,
                   cleanup_lambda_role, role_statements, head_dna, api_calls,
                   api_queries, run, faults>>

\* -------------------------------------------------- security groups

HeadSecurityGroupCreated == config.head_node.security_groups = <<>>

\* a compute group is made only next to a managed head node group
ComputeSecurityGroupWithHeadOnly ==
    /\ config.head_node.security_groups = <<>>
    /\ \E i \in 1..Len(config.queues) : config.queues[i].security_groups = <<>>

\* any(not queue.networking.security_groups for queue in queues)
ComputeSecurityGroupCreated ==
    \E i \in 1..Len(config.queues) : config.queues[i].security_groups = <<>>

_add_head_security_group ==
    <<MkNode("HeadNodeSecurityGroup", "root", "SecurityGroup", [vpc |-> "vpc"])>>

AllPorts(group, peer_field, peer) ==
    [ip_protocol |-> "-1", from_port |-> 0, to_port |-> 65535,
     group_id |-> group, peer_kind |-> peer_field, peer |-> peer]

\* the open egress rule is made before the rule it depends on
ComputeSecurityGroupNormalEgressFirst ==
    <<MkNode("ComputeSecurityGroup", "root", "SecurityGroup", [vpc |-> "vpc"]),
      MkNode("ComputeSecurityGroupNormalEgress", "root", "SecurityGroupEgress",
             AllPorts("ComputeSecurityGroup", "cidr_ip", "0.0.0.0/0")),
      MkNode("ComputeSecurityGroupEgress", "root", "SecurityGroupEgress",
             AllPorts("ComputeSecurityGroup", "destination_security_group_id", "ComputeSecurityGroup")),
      MkNode("ComputeSecurityGroupIngress", "root", "SecurityGroupIngress",
             AllPorts("ComputeSecurityGroup", "source_security_group_id", "ComputeSecurityGroup"))>>

_add_compute_security_group ==
    <<MkNode("ComputeSecurityGroup", "root", "SecurityGroup", [vpc |-> "vpc"]),
      MkNode("ComputeSecurityGroupEgress", "root", "SecurityGroupEgress",
             AllPorts("ComputeSecurityGroup", "destination_security_group_id", "ComputeSecurityGroup")),
      MkNode("ComputeSecurityGroupNormalEgress", "root", "SecurityGroupEgress",
             AllPorts("ComputeSecurityGroup", "cidr_ip", "0.0.0.0/0")),
      MkNode("ComputeSecurityGroupIngress", "root", "SecurityGroupIngress",
             AllPorts("ComputeSecurityGroup", "source_security_group_id", "ComputeSecurityGroup"))>>

\* the ingress pair between the two managed groups, as a variant that pairs
\* them whenever a compute group was created
CrossIngressUnlessNoCompute(head_created, compute_created) ==
    IF compute_created
    THEN <<MkNode("HeadNodeSecurityGroupComputeIngress", "root", "SecurityGroupIngress",
                  AllPorts("HeadNodeSecurityGroup", "source_security_group_id", "ComputeSecurityGroup")),
           MkNode("ComputeSecurityGroupHeadNodeIngress", "root", "SecurityGroupIngress",
                  AllPorts("ComputeSecurityGroup", "source_security_group_id", "HeadNodeSecurityGroup"))>>
    ELSE <<>>

\* the ingress pair between the two managed groups
CrossIngress(head_created, compute_created) ==
    IF head_created /\ compute_created
    THEN <<MkNode("HeadNodeSecurityGroupComputeIngress", "root", "SecurityGroupIngress",
                  AllPorts("HeadNodeSecurityGroup", "source_security_group_id", "ComputeSecurityGroup")),
           MkNode("ComputeSecurityGroupHeadNodeIngress", "root", "SecurityGroupIngress",
                  AllPorts("ComputeSecurityGroup", "source_security_group_id", "HeadNodeSecurityGroup"))>>
    ELSE <<>>

_add_security_groups ==
    /\ pc = "_add_security_groups"
    /\ UNCHANGED <<run, faults>>
    /\ Emit("_add_head_eni",
            (IF HeadSecurityGroupCreated THEN _add_head_security_group ELSE <<>>)
            \o (IF ComputeSecurityGroupCreated THEN _add_compute_security_group ELSE <<>>)
            \o CrossIngress(HeadSecurityGroupCreated, ComputeSecurityGroupCreated),
            IF ComputeSecurityGroupCreated
            THEN {<<"ComputeSecurityGroupNormalEgress", "ComputeSecurityGroupEgress">>}
            ELSE {})
    /\ head_security_group' =
          IF HeadSecurityGroupCreated THEN Ref("HeadNodeSecurityGroup") ELSE PyNone
    /\ compute_security_group' =
          IF ComputeSecurityGroupCreated THEN Ref("ComputeSecurityGroup") ELSE PyNone
    /\ UNCHANGED <<config, existing_mount_targets, storage_index,
                   shared_storage_mappings, shared_storage_options,
                   shared_storage_attributes, scheduler_resources,
                   compute_fleet_resources, byos_stack, cleanup_lambda_role,
                   role_statements, head_dna, api_calls, api_queries>>

\* ------------------------------------------------------------- AWSApi

ApiKey(op, args) == [op |-> op, args |-> args]

\* the operations of AWSApi the synthesis calls
LookupOps == {"get_subnet_avail_zone", "get_efs_mount_target_id", "get_eip_allocation_id"}

\* what apply_permissions_boundary may do: return, or raise
BoundaryOutcomes == {"ok", "AttributeError", "ClientError"}

\* nothing goes wrong
NoFaults == [lookups |-> {}, permissions_boundary |-> "ok"]

\* the queries sent to the cloud when every call is forwarded
UncachedQueries(queries, key) == Append(queries, key)

\* the queries sent to the cloud when AWSApi answers a repeated key from
\* the results it holds for this run
CachedQueries(queries, key) ==
    IF key \in Range(queries) THEN queries ELSE Append(queries, key)

\* api_queries after the calls keys, made in order
RECURSIVE QueriesAfter(_, _)
QueriesAfter(queries, keys) ==
    IF keys = <<>> THEN queries
    ELSE QueriesAfter(CachedQueries(queries, Head(keys)), Tail(keys))

\* AWSApi.instance().ec2.get_subnet_avail_zone(subnet_id)
get_subnet_avail_zone(subnet_id) == SubnetAvailZone(subnet_id)

\* AWSApi.instance().efs.get_efs_mount_target_id(fs, az): None when there is none
get_efs_mount_target_id(file_system_id, avail_zone) ==
    IF <<file_system_id, avail_zone>> \in existing_mount_targets
    THEN PyStr("fsmt-" \o avail_zone)
    ELSE PyNone

\* AWSApi.instance().ec2.get_eip_allocation_id(elastic_ip)
get_eip_allocation_id(elastic_ip) == PyStr("eipalloc-1")

ApiCalls(keys) ==
    /\ api_calls' = api_calls \o keys
    /\ api_queries' = QueriesAfter(api_queries, keys)

\* position in keys of the first call that raises (0: none does)
FirstFailing(keys) ==
    IF \E k \in 1..Len(keys) : keys[k].op \in faults.lookups
    THEN CHOOSE k \in 1..Len(keys) :
            /\ keys[k].op \in faults.lookups
            /\ \A j \in 1..(k - 1) : keys[j].op \notin faults.lookups
    ELSE 0

\* the statement making the calls keys is left at the first call that raises:
\* nothing catches the exception on its way out of __init__
Raise(keys) ==
    /\ pc' = "failed"
    /\ error' = keys[FirstFailing(keys)].op
    /\ ApiCalls(SubSeq(keys, 1, FirstFailing(keys)))
    /\ UNCHANGED <<nodes, deps>>

\* ----------------------------------------------------- head node ENI

_get_head_node_security_groups ==
    IF config.head_node.security_groups # <<>>
    THEN config.head_node.security_groups
    ELSE <<head_security_group>>

\* the list returned; when the head groups are user supplied it is the
\* config's own list object, extended in place
_get_head_node_security_groups_full ==
    _get_head_node_security_groups \o config.head_node.additional_security_groups

ConfigAfterHeadGroups ==
    IF config.head_node.security_groups # <<>>
    THEN [config EXCEPT !.head_node.security_groups = _get_head_node_security_groups_full]
    ELSE config

ElasticIpNodes ==
    LET elastic_ip == config.head_node.elastic_ip
        eni == MkNode("HeadNodeENI", "root", "NetworkInterface",
                      [subnet_id |-> config.head_node.subnet_id,
                       group_set |-> _get_head_node_security_groups_full])
    IN  IF ~Truthy(elastic_ip) THEN <<eni>>
        ELSE IF elastic_ip = PyBool(TRUE)
        THEN <<eni,
               MkNode("HeadNodeEIP", "root", "EIP", [domain |-> "vpc"]),
               MkNode("AssociateEIP", "root", "EIPAssociation",
                      [allocation_id |-> Attr("HeadNodeEIP", "AllocationId"),
                       network_interface_id |-> Ref("HeadNodeENI")])>>
        ELSE <<eni,
               MkNode("AssociateEIP", "root", "EIPAssociation",
                      [allocation_id |-> get_eip_allocation_id(elastic_ip),
                       network_interface_id |-> Ref("HeadNodeENI")])>>

_add_head_eni ==
    /\ pc = "_add_head_eni"
    /\ UNCHANGED <<run, faults>>
    /\ LET keys == IF Truthy(config.head_node.elastic_ip)
                       /\ config.head_node.elastic_ip # PyBool(TRUE)
                   THEN <<ApiKey("get_eip_allocation_id", <<config.head_node.elastic_ip.v[1]>>)>>
                   ELSE <<>>
       IN  IF FirstFailing(keys) # 0
           THEN Raise(keys)
           ELSE /\ Emit("_add_cleanup_resources_lambda", ElasticIpNodes, {})
                /\ ApiCalls(keys)
    /\ config' = ConfigAfterHeadGroups
    /\ UNCHANGED <<existing_mount_targets, storage_index, head_security_group,
                   compute_security_group, shared_storage_mappings,
                   shared_storage_options, shared_storage_attributes,
                   scheduler_resources, compute_fleet_resources, byos_stack,
                   cleanup_lambda_role, role_statements, head_dna>>

\* ------------------------------------------------ cleanup resources

\* a supplied role is used as it is, implied or not
CreateLambdaRoleUnlessSupplied == ~Truthy(config.lambda_functions_role.value)

_condition_create_lambda_iam_role ==
    \/ ~Truthy(config.lambda_functions_role.value)
    \/ config.lambda_functions_role.implied

_add_cleanup_resources_lambda ==
    /\ pc = "_add_cleanup_resources_lambda"
    /\ UNCHANGED <<run, faults>>
    /\ Emit("_add_shared_storage",
            (IF _condition_create_lambda_iam_role
             THEN <<MkNode("CleanupResourcesRole", "root", "Role", [function_id |-> "CleanupResources"])>>
             ELSE <<>>)
            \o <<MkNode("CleanupResourcesFunctionConstruct", "root", "Function",
                        [execution_role |->
                            IF _condition_create_lambda_iam_role
                            THEN Attr("CleanupResourcesRole", "Arn")
                            ELSE config.lambda_functions_role.value]),
                 MkNode("CleanupResourcesS3BucketCustomResource", "root", "CustomResource",
                        [Action |-> "DELETE_S3_ARTIFACTS"])>>,
            {})
    /\ cleanup_lambda_role' =
          IF _condition_create_lambda_iam_role THEN Ref("CleanupResourcesRole") ELSE PyNone
    /\ role_statements' =
          IF _condition_create_lambda_iam_role
          THEN <<"S3BucketPolicy", "CloudWatchLogsPolicy">>
          ELSE <<>>
    /\ UNCHANGED <<config, existing_mount_targets, storage_index, head_security_group,
                   compute_security_group, shared_storage_mappings,
                   shared_storage_options, shared_storage_attributes,
                   scheduler_resources, compute_fleet_resources, byos_stack,
                   head_dna, api_calls, api_queries>>

\* ---------------------------------------------------- shared storage

StorageInfo(id, storage) == [id |-> id, config |-> storage]

\* self._get_compute_security_groups()
_get_compute_security_groups ==
    config.compute_security_groups
    \o (IF Truthy(compute_security_group) THEN <<compute_security_group>> ELSE <<>>)

\* "{0}{1}".format(storage.shared_storage_type.name, len(storage_ids_list))
cfn_resource_id(storage) ==
    storage.shared_storage_type \o ToString(Len(shared_storage_mappings[storage.shared_storage_type]))

\* -- FSx

FsxCreated(shared_fsx) == ~Truthy(shared_fsx.file_system_id) /\ Truthy(shared_fsx.mount_dir)

\* the drive cache type handed on as it is declared
FsxDriveCacheTypeAsDeclared(shared_fsx) == shared_fsx.drive_cache_type

\* the drive cache type of the file system resource
FsxDriveCacheType(shared_fsx) ==
    IF shared_fsx.fsx_storage_type = PyStr("HDD")
    THEN IF Truthy(shared_fsx.drive_cache_type) THEN shared_fsx.drive_cache_type ELSE PyStr("NONE")
    ELSE PyNone

FsxResource(id, shared_fsx) ==
    MkNode(id, "root", "FSxFileSystem",
           [storage_capacity |-> shared_fsx.storage_capacity,
            drive_cache_type |-> FsxDriveCacheType(shared_fsx),
            copy_tags_to_backups |-> shared_fsx.copy_tags_to_backups,
            deployment_type |-> shared_fsx.deployment_type,
            backup_id |-> shared_fsx.backup_id,
            kms_key_id |-> shared_fsx.kms_key_id,
            file_system_type |-> "LUSTRE",
            storage_type |-> shared_fsx.fsx_storage_type,
            subnet_ids |-> config.compute_subnet_ids,
            security_group_ids |-> _get_compute_security_groups,
            name |-> shared_fsx.name])

FsxId(id, shared_fsx) ==
    IF FsxCreated(shared_fsx) THEN Ref(id) ELSE shared_fsx.file_system_id

\* the option record with the storage type left out when it is unset
FsxOptionItemsSkippingUnset(shared_fsx, fsx_id) ==
    <<shared_fsx.mount_dir,
      fsx_id,
      Or(shared_fsx.storage_capacity, NONE),
      Or(shared_fsx.kms_key_id, NONE),
      Or(shared_fsx.imported_file_chunk_size, NONE),
      Or(shared_fsx.export_path, NONE),
      Or(shared_fsx.import_path, NONE),
      Or(shared_fsx.weekly_maintenance_start_time, NONE),
      Or(shared_fsx.deployment_type, NONE),
      Or(shared_fsx.per_unit_storage_throughput, NONE),
      Or(shared_fsx.daily_automatic_backup_start_time, NONE),
      Or(shared_fsx.automatic_backup_retention_days, NONE),
      IF ~IsNone(shared_fsx.copy_tags_to_backups) THEN shared_fsx.copy_tags_to_backups ELSE NONE,
      Or(shared_fsx.backup_id, NONE),
      Or(shared_fsx.auto_import_policy, NONE)>>
    \o (IF Truthy(shared_fsx.fsx_storage_type) THEN <<shared_fsx.fsx_storage_type>> ELSE <<>>)
    \o <<Or(shared_fsx.drive_cache_type, NONE),
         shared_fsx.existing_mount_name,
         shared_fsx.existing_dns_name>>

\* the items of the FSx option record, in order
FsxOptionItems(shared_fsx, fsx_id) ==
    <<shared_fsx.mount_dir,
      fsx_id,
      Or(shared_fsx.storage_capacity, NONE),
      Or(shared_fsx.kms_key_id, NONE),
      Or(shared_fsx.imported_file_chunk_size, NONE),
      Or(shared_fsx.export_path, NONE),
      Or(shared_fsx.import_path, NONE),
      Or(shared_fsx.weekly_maintenance_start_time, NONE),
      Or(shared_fsx.deployment_type, NONE),
      Or(shared_fsx.per_unit_storage_throughput, NONE),
      Or(shared_fsx.daily_automatic_backup_start_time, NONE),
      Or(shared_fsx.automatic_backup_retention_days, NONE),
      IF ~IsNone(shared_fsx.copy_tags_to_backups) THEN shared_fsx.copy_tags_to_backups ELSE NONE,
      Or(shared_fsx.backup_id, NONE),
      Or(shared_fsx.auto_import_policy, NONE),
      Or(shared_fsx.fsx_storage_type, NONE),
      Or(shared_fsx.drive_cache_type, NONE),
      shared_fsx.existing_mount_name,
      shared_fsx.existing_dns_name>>

\* what _add_fsx_storage adds and returns
_add_fsx_storage(id, shared_fsx) ==
    [nodes |-> IF FsxCreated(shared_fsx) THEN <<FsxResource(id, shared_fsx)>> ELSE <<>>,
     ids |-> <<StorageInfo(FsxId(id, shared_fsx), shared_fsx)>>,
     options |-> Join(FsxOptionItems(shared_fsx, FsxId(id, shared_fsx))),
     attributes |->
        [present |-> TRUE,
         MountName |-> IF FsxCreated(shared_fsx)
                       THEN Attr(id, "LustreMountName")
                       ELSE shared_fsx.existing_mount_name,
         DNSName |-> shared_fsx.existing_dns_name],
     keys |-> <<>>]

\* -- EFS

EfsCreated(shared_efs) == ~Truthy(shared_efs.file_system_id) /\ Truthy(shared_efs.mount_dir)

EfsId(id, shared_efs) ==
    IF EfsCreated(shared_efs) THEN Ref(id) ELSE shared_efs.file_system_id

EfsResource(id, shared_efs) ==
    MkNode(id, "root", "EFSFileSystem",
           [encrypted |-> shared_efs.encrypted,
            kms_key_id |-> shared_efs.kms_key_id,
            performance_mode |-> shared_efs.performance_mode,
            provisioned_throughput_in_mibps |-> shared_efs.provisioned_throughput,
            throughput_mode |-> shared_efs.throughput_mode,
            name |-> shared_efs.name])

MountTarget(efs_cfn_resource_id, file_system_id, security_groups, subnet_id, availability_zone) ==
    MkNode(efs_cfn_resource_id \o "MT" \o availability_zone, "root", "MountTarget",
           [file_system_id |-> file_system_id,
            security_groups |-> security_groups,
            subnet_id |-> subnet_id,
            availability_zone |-> availability_zone])

\* the existence check of one mount target: the lookup is skipped for a new file system
MountTargetLookup(file_system_id, availability_zone, new_file_system) ==
    IF new_file_system THEN <<>>
    ELSE <<ApiKey("get_efs_mount_target_id", <<file_system_id.v[1], availability_zone>>)>>

MountTargetNeeded(file_system_id, availability_zone, new_file_system) ==
    new_file_system \/ ~Truthy(get_efs_mount_target_id(file_system_id.v[1], availability_zone))

\* one call that does not consult the zones already checked
AddMountTargetUnchecked(st, efs_cfn_resource_id, file_system_id, security_groups, subnet_id, new_file_system) ==
    LET availability_zone == get_subnet_avail_zone(subnet_id)
        az_key == ApiKey("get_subnet_avail_zone", <<subnet_id>>)
    IN  [checked |-> Append(st.checked, availability_zone),
         nodes |-> st.nodes \o
            (IF MountTargetNeeded(file_system_id, availability_zone, new_file_system)
             THEN <<MountTarget(efs_cfn_resource_id, file_system_id, security_groups,
                                subnet_id, availability_zone)>>
             ELSE <<>>),
         keys |-> (st.keys \o <<az_key>>)
                  \o MountTargetLookup(file_system_id, availability_zone, new_file_system)]

\* one call of _add_efs_mount_target; st holds checked_availability_zones, the
\* mount targets created so far and the AWSApi calls made so far
_add_efs_mount_target(st, efs_cfn_resource_id, file_system_id, security_groups, subnet_id, new_file_system) ==
    LET availability_zone == get_subnet_avail_zone(subnet_id)
        az_key == ApiKey("get_subnet_avail_zone", <<subnet_id>>)
    IN  IF availability_zone \in Range(st.checked)
        THEN [st EXCEPT !.keys = Append(@, az_key)]
        ELSE [checked |-> Append(st.checked, availability_zone),
              nodes |-> st.nodes \o
                 (IF MountTargetNeeded(file_system_id, availability_zone, new_file_system)
                  THEN <<MountTarget(efs_cfn_resource_id, file_system_id, security_groups,
                                     subnet_id, availability_zone)>>
                  ELSE <<>>),
              keys |-> (st.keys \o <<az_key>>)
                       \o MountTargetLookup(file_system_id, availability_zone, new_file_system)]

\* the calls of _add_efs_mount_target for the subnets, in order
RECURSIVE EfsMountTargets(_, _, _, _, _, _)
EfsMountTargets(st, id, file_system_id, security_groups, subnet_ids, new_file_system) ==
    IF subnet_ids = <<>> THEN st
    ELSE EfsMountTargets(
            _add_efs_mount_target(st, id, file_system_id, security_groups,
                                  Head(subnet_ids), new_file_system),
            id, file_system_id, security_groups, Tail(subnet_ids), new_file_system)

\* the items of the EFS option record, in order
EfsOptionItems(shared_efs, efs_id) ==
    <<shared_efs.mount_dir,
      efs_id,
      Or(shared_efs.performance_mode, NONE),
      Or(shared_efs.kms_key_id, NONE),
      Or(shared_efs.provisioned_throughput, NONE),
      IF ~IsNone(shared_efs.encrypted) THEN shared_efs.encrypted ELSE NONE,
      Or(shared_efs.throughput_mode, NONE),
      NONE,
      NONE>>

\* what _add_efs_storage adds and returns: compute subnets first, head subnet last
_add_efs_storage(id, shared_efs) ==
    LET efs_id == EfsId(id, shared_efs)
        new_file_system == IsNone(shared_efs.file_system_id)
        mts == EfsMountTargets([checked |-> <<>>, nodes |-> <<>>, keys |-> <<>>],
                               id, efs_id, _get_compute_security_groups,
                               Append(config.compute_subnet_ids, config.head_node.subnet_id),
                               new_file_system)
    IN  [nodes |-> (IF EfsCreated(shared_efs) THEN <<EfsResource(id, shared_efs)>> ELSE <<>>)
                   \o mts.nodes,
         ids |-> <<StorageInfo(efs_id, shared_efs)>>,
         options |-> Join(EfsOptionItems(shared_efs, efs_id)),
         attributes |-> shared_storage_attributes,
         keys |-> mts.keys]

\* -- EBS and RAID

CfnVolume(id, shared_ebs) ==
    MkNode(id, "root", "Volume",
           [encrypted |-> shared_ebs.encrypted,
            iops |-> shared_ebs.iops,
            throughput |-> shared_ebs.throughput,
            kms_key_id |-> shared_ebs.kms_key_id,
            size |-> shared_ebs.size,
            snapshot_id |-> shared_ebs.snapshot_id,
            volume_type |-> shared_ebs.volume_type,
            name |-> shared_ebs.name])

\* the RAID option record kept behind that of the RAID declarations before it
RaidOptionItemsAfterEarlier(shared_ebs) ==
    (IF shared_storage_options["RAID"] = <<>> THEN <<>>
     ELSE <<PyToks(shared_storage_options["RAID"])>>)
    \o <<shared_ebs.mount_dir,
         shared_ebs.raid.raid_type,
         PyInt(shared_ebs.raid.number_of_volumes),
         shared_ebs.volume_type,
         shared_ebs.size,
         shared_ebs.iops,
         IF ~IsNone(shared_ebs.encrypted) THEN shared_ebs.encrypted ELSE NONE,
         Or(shared_ebs.kms_key_id, NONE),
         shared_ebs.throughput>>

\* the items of the RAID option record, in order
RaidOptionItems(shared_ebs) ==
    <<shared_ebs.mount_dir,
      shared_ebs.raid.raid_type,
      PyInt(shared_ebs.raid.number_of_volumes),
      shared_ebs.volume_type,
      shared_ebs.size,
      shared_ebs.iops,
      IF ~IsNone(shared_ebs.encrypted) THEN shared_ebs.encrypted ELSE NONE,
      Or(shared_ebs.kms_key_id, NONE),
      shared_ebs.throughput>>

\* volume names counted from one
RaidVolumeIdFromOne(id_prefix, index) == id_prefix \o "Volume" \o ToString(index + 1)

\* f"{id_prefix}Volume{index}"
RaidVolumeId(id_prefix, index) == id_prefix \o "Volume" \o ToString(index)

\* what _add_raid_volume adds and returns
_add_raid_volume(id_prefix, shared_ebs) ==
    [nodes |-> [k \in 1..shared_ebs.raid.number_of_volumes |->
                   CfnVolume(RaidVolumeId(id_prefix, k - 1), shared_ebs)],
     ids |-> [k \in 1..shared_ebs.raid.number_of_volumes |->
                 StorageInfo(Ref(RaidVolumeId(id_prefix, k - 1)), shared_ebs)],
     options |-> Join(RaidOptionItems(shared_ebs)),
     attributes |-> shared_storage_attributes,
     keys |-> <<>>]

\* a volume is created whether or not the declaration names an existing one
EbsAlwaysCreated(shared_ebs) == Truthy(shared_ebs.mount_dir)

\* `if not ebs_id and shared_ebs.mount_dir`
EbsCreated(shared_ebs) == ~Truthy(shared_ebs.volume_id) /\ Truthy(shared_ebs.mount_dir)

\* the list of shared dirs replaced by the mount dir of this declaration
EbsMountDirsLastOnly(shared_ebs) == Str(shared_ebs.mount_dir)

\* the list of shared dirs with the mount dir of this declaration appended
EbsMountDirs(shared_ebs) ==
    IF shared_storage_options["EBS"] # <<>>
    THEN shared_storage_options["EBS"] \o <<",">> \o Str(shared_ebs.mount_dir)
    ELSE Str(shared_ebs.mount_dir)

\* what _add_ebs_volume adds and returns
_add_ebs_volume(id, shared_ebs) ==
    [nodes |-> IF EbsCreated(shared_ebs) THEN <<CfnVolume(id, shared_ebs)>> ELSE <<>>,
     ids |-> <<StorageInfo(IF EbsCreated(shared_ebs) THEN Ref(id) ELSE shared_ebs.volume_id,
                           shared_ebs)>>,
     options |-> EbsMountDirs(shared_ebs),
     attributes |-> shared_storage_attributes,
     keys |-> <<>>]

\* -- the loop over config.shared_storage

StorageResult(storage) ==
    CASE storage.shared_storage_type = "FSX" -> _add_fsx_storage(cfn_resource_id(storage), storage)
      [] storage.shared_storage_type = "EBS" -> _add_ebs_volume(cfn_resource_id(storage), storage)
      [] storage.shared_storage_type = "EFS" -> _add_efs_storage(cfn_resource_id(storage), storage)
      [] OTHER -> _add_raid_volume(cfn_resource_id(storage), storage)

\* one iteration: self._add_shared_storage(storage)
_add_shared_storage ==
    /\ pc = "_add_shared_storage"
    /\ UNCHANGED <<run, faults>>
    /\ storage_index <= Len(config.shared_storage)
    /\ LET storage == config.shared_storage[storage_index]
           type == storage.shared_storage_type
           r == StorageResult(storage)
       IN  IF FirstFailing(r.keys) # 0
           THEN /\ Raise(r.keys)
                /\ UNCHANGED <<storage_index, shared_storage_mappings,
                               shared_storage_options, shared_storage_attributes>>
           ELSE /\ Emit("_add_shared_storage", r.nodes, {})
                /\ shared_storage_mappings' =
                      [shared_storage_mappings EXCEPT ![type] = @ \o r.ids]
                /\ shared_storage_options' = [shared_storage_options EXCEPT ![type] = r.options]
                /\ shared_storage_attributes' = r.attributes
                /\ ApiCalls(r.keys)
                /\ storage_index' = storage_index + 1
    /\ UNCHANGED <<config, existing_mount_targets, head_security_group,
                   compute_security_group, scheduler_resources,
                   compute_fleet_resources, byos_stack, cleanup_lambda_role,
                   role_statements, head_dna>>

\* the loop is exhausted
SharedStorageDone ==
    /\ pc = "_add_shared_storage"
    /\ UNCHANGED <<run, faults>>
    /\ storage_index > Len(config.shared_storage)
    /\ pc' = "SlurmConstruct"
    /\ UNCHANGED <<config, existing_mount_targets, storage_index, nodes, deps,
                   head_security_group, compute_security_group,
                   shared_storage_mappings, shared_storage_options,
                   shared_storage_attributes, scheduler_resources,
                   compute_fleet_resources, byos_stack, cleanup_lambda_role,
                   role_statements, head_dna, api_calls, api_queries, error>>

\* ------------------------------------------------------- conditions

_condition_is_slurm == config.scheduler = "slurm"

_condition_is_byos == config.scheduler = "byos"

_condition_is_batch == config.scheduler = "awsbatch"

NoSchedulerResources == [kind |-> "none", cluster_hosted_zone |-> PyNone, dynamodb_table |-> PyNone]

\* ------------------------------------------------- scheduler: Slurm

\* the children of the Slurm construct: a private hosted zone and a state table
SlurmResources ==
    <<MkNode("Route53HostedZone", "Slurm", "HostedZone", [name |-> "pcluster."]),
      MkNode("DynamoDBTable", "Slurm", "Table", [name |-> "slurm-state"])>>

\* the Slurm construct is built whatever the scheduler is
SlurmAlways == <<MkNode("Slurm", "root", "SlurmConstruct", [stack |-> "stack"])>> \o SlurmResources

\* self.scheduler_resources = SlurmConstruct(...) if self._condition_is_slurm()
SlurmIfSlurm ==
    IF _condition_is_slurm
    THEN <<MkNode("Slurm", "root", "SlurmConstruct", [stack |-> "stack"])>> \o SlurmResources
    ELSE <<>>

SlurmConstruct ==
    /\ pc = "SlurmConstruct"
    /\ UNCHANGED <<run, faults>>
    /\ Emit("ComputeFleetConstruct", SlurmIfSlurm, {})
    /\ scheduler_resources' =
          IF SlurmIfSlurm # <<>>
          THEN [kind |-> "slurm",
                cluster_hosted_zone |-> Ref("Route53HostedZone"),
                dynamodb_table |-> Ref("DynamoDBTable")]
          ELSE NoSchedulerResources
    /\ UNCHANGED <<config, existing_mount_targets, storage_index, head_security_group,
                   compute_security_group, shared_storage_mappings,
                   shared_storage_options, shared_storage_attributes,
                   compute_fleet_resources, byos_stack, cleanup_lambda_role,
                   role_statements, head_dna, api_calls, api_queries>>

\* ---------------------------------------------------- compute fleet

\* a deterministic short hash of the string
create_hash_suffix(string_to_hash) == "#" \o string_to_hash

\* a placement group is created for every queue that enables placement
PlacementGroupWheneverEnabled(queue) ==
    queue.placement_group.present /\ queue.placement_group.enabled

PlacementGroupManaged(queue) ==
    /\ queue.placement_group.present
    /\ queue.placement_group.enabled
    /\ ~Truthy(queue.placement_group.id)

PlacementGroupId(queue) == "PlacementGroup" \o create_hash_suffix(queue.name)

\* managed_placement_groups, as the list of the queues that get one
RECURSIVE _add_placement_groups(_)
_add_placement_groups(queues) ==
    IF queues = <<>> THEN <<>>
    ELSE (IF PlacementGroupManaged(Head(queues))
          THEN <<MkNode(PlacementGroupId(Head(queues)), "ComputeFleet", "PlacementGroup",
                        [strategy |-> "cluster", queue |-> Head(queues).name])>>
          ELSE <<>>)
         \o _add_placement_groups(Tail(queues))

queue_placement_group(queue) ==
    IF queue.placement_group.present /\ queue.placement_group.enabled
    THEN IF Truthy(queue.placement_group.id)
         THEN queue.placement_group.id
         ELSE Ref(PlacementGroupId(queue))
    ELSE PyNone

\* the security groups of the nodes of a queue: its own, or the managed one
get_queue_security_groups_full(queue) ==
    IF queue.security_groups # <<>> THEN queue.security_groups ELSE <<compute_security_group>>

\* the number of network interfaces the instance type has
InstanceTypeInterfaces(instance_type) ==
    CASE instance_type = "p4d.24xlarge" -> 4
      [] OTHER -> 1

\* the interface type follows any EFA-enabled compute resource of the queue
InterfaceTypeOfQueue(queue, compute_resource) ==
    IF \E k \in 1..Len(queue.compute_resources) :
          queue.compute_resources[k].efa.present /\ queue.compute_resources[k].efa.enabled
    THEN PyStr("efa") ELSE PyNone

\* "efa" if compute_resource.efa and compute_resource.efa.enabled else None
InterfaceType(queue, compute_resource) ==
    IF compute_resource.efa.present /\ compute_resource.efa.enabled
    THEN PyStr("efa") ELSE PyNone

\* the interface of device index 0
PrimaryInterface(queue, compute_resource, associate_public_ip_address) ==
    [device_index |-> 0,
     network_card_index |-> PyNone,
     associate_public_ip_address |-> associate_public_ip_address,
     interface_type |-> InterfaceType(queue, compute_resource),
     groups |-> get_queue_security_groups_full(queue),
     subnet_id |-> queue.subnet_id]

\* the interface of a further device index
AdditionalInterface(queue, compute_resource, device_index) ==
    [device_index |-> device_index,
     network_card_index |-> PyInt(device_index),
     associate_public_ip_address |-> PyNone,
     interface_type |-> InterfaceType(queue, compute_resource),
     groups |-> get_queue_security_groups_full(queue),
     subnet_id |-> queue.subnet_id]

\* the primary interface is given the queue's public-ip setting whatever the
\* number of interfaces
NetworkInterfacesPublicIpAlways(queue, compute_resource) ==
    <<PrimaryInterface(queue, compute_resource, queue.assign_public_ip)>>
    \o [k \in 1..(compute_resource.max_network_interface_count - 1) |->
            AdditionalInterface(queue, compute_resource, k)]

\* as many interfaces as the instance type has, whatever the config says
NetworkInterfacesOfInstanceType(queue, compute_resource) ==
    <<PrimaryInterface(queue, compute_resource,
                       IF compute_resource.max_network_interface_count = 1
                       THEN queue.assign_public_ip ELSE PyNone)>>
    \o [k \in 1..(InstanceTypeInterfaces(compute_resource.instance_type) - 1) |->
            AdditionalInterface(queue, compute_resource, k)]

\* compute_lt_nw_interfaces
compute_lt_nw_interfaces(queue, compute_resource) ==
    <<PrimaryInterface(queue, compute_resource,
                       IF compute_resource.max_network_interface_count = 1
                       THEN queue.assign_public_ip ELSE PyNone)>>
    \o [k \in 1..(compute_resource.max_network_interface_count - 1) |->
            AdditionalInterface(queue, compute_resource, k)]

\* get_shared_storage_ids_by_type: the ids of one storage type, comma-joined
get_shared_storage_ids_by_type(storage_type) ==
    IF shared_storage_mappings[storage_type] = <<>> THEN NONE
    ELSE PyToks(Join([k \in 1..Len(shared_storage_mappings[storage_type]) |->
                         shared_storage_mappings[storage_type][k].id]))

\* get_shared_storage_options_by_type: the option string of one storage type
get_shared_storage_options_by_type(storage_type) ==
    IF shared_storage_options[storage_type] = <<>> THEN NONE
    ELSE PyToks(shared_storage_options[storage_type])

\* "true" if x else "false"
TrueFalse(x) == IF x THEN PyStr("true") ELSE PyStr("false")

\* self._cluster_hosted_zone and self._dynamodb_table of the compute fleet:
\* those of the scheduler resources, if there are any
FleetHostedZone == scheduler_resources.cluster_hosted_zone
FleetDynamoDBTable == scheduler_resources.dynamodb_table

\* the variables substituted into the compute node user_data.sh; the model's
\* configs declare no custom actions, local storage, packages or extra json
ComputeUserData(queue, compute_resource) ==
    [EnableEfa |-> IF compute_resource.efa.present /\ compute_resource.efa.enabled
                   THEN PyStr("efa") ELSE NONE,
     RAIDOptions |-> get_shared_storage_options_by_type("RAID"),
     DisableHyperThreadingManually |-> TrueFalse(FALSE),
     BaseOS |-> PyStr("alinux2"),
     PreInstallScript |-> NONE,
     PreInstallArgs |-> NONE,
     PostInstallScript |-> NONE,
     PostInstallArgs |-> NONE,
     EFSId |-> get_shared_storage_ids_by_type("EFS"),
     EFSOptions |-> get_shared_storage_options_by_type("EFS"),
     FSXId |-> get_shared_storage_ids_by_type("FSX"),
     FSXMountName |-> IF shared_storage_attributes.present
                      THEN shared_storage_attributes.MountName ELSE EmptyStr,
     FSXDNSName |-> IF shared_storage_attributes.present
                    THEN shared_storage_attributes.DNSName ELSE EmptyStr,
     FSXOptions |-> get_shared_storage_options_by_type("FSX"),
     Scheduler |-> PyStr(config.scheduler),
     EphemeralDir |-> PyStr("/scratch"),
     EbsSharedDirs |-> get_shared_storage_options_by_type("EBS"),
     ClusterDNSDomain |-> IF Truthy(FleetHostedZone) THEN PyStr("pcluster.") ELSE EmptyStr,
     ClusterHostedZone |-> IF Truthy(FleetHostedZone)
                           THEN PyToks(Str(FleetHostedZone)) ELSE EmptyStr,
     OSUser |-> PyStr("ec2-user"),
     DynamoDBTable |-> IF Truthy(FleetDynamoDBTable) THEN FleetDynamoDBTable ELSE NONE,
     LogGroupName |-> IF config.is_cw_logging_enabled THEN LogGroupName ELSE NONE,
     IntelHPCPlatform |-> TrueFalse(FALSE),
     CWLoggingEnabled |-> TrueFalse(config.is_cw_logging_enabled),
     QueueName |-> PyStr(queue.name),
     ComputeResourceName |-> PyStr(compute_resource.name),
     EnableEfaGdr |-> NONE,
     CustomNodePackage |-> EmptyStr,
     CustomAwsBatchCliPackage |-> EmptyStr,
     ExtraJson |-> PyStr("{}")]

_add_compute_resource_launch_template(queue, compute_resource) ==
    MkNode("LaunchTemplate" \o create_hash_suffix(queue.name \o compute_resource.instance_type),
           "ComputeFleet", "LaunchTemplate",
           [launch_template_name |-> "stack-" \o queue.name \o "-" \o compute_resource.instance_type,
            queue |-> queue.name,
            compute_resource |-> compute_resource.name,
            instance_type |-> compute_resource.instance_type,
            network_interfaces |-> compute_lt_nw_interfaces(queue, compute_resource),
            user_data |-> ComputeUserData(queue, compute_resource),
            placement_group_name |-> queue_placement_group(queue)])

RECURSIVE _add_launch_templates(_)
_add_launch_templates(queues) ==
    IF queues = <<>> THEN <<>>
    ELSE [k \in 1..Len(Head(queues).compute_resources) |->
             _add_compute_resource_launch_template(Head(queues), Head(queues).compute_resources[k])]
         \o _add_launch_templates(Tail(queues))

TerminateCustomResource ==
    MkNode("TerminateComputeFleetCustomResource", "ComputeFleet", "CustomResource",
           [Action |-> "TERMINATE_EC2_INSTANCES", StackName |-> "stack"])

\* ComputeFleetConstruct._add_resources: the children of the construct
ComputeFleetResources ==
    _add_placement_groups(config.queues)
    \o _add_launch_templates(config.queues)
    \o <<TerminateCustomResource>>

\* the edges on the placement groups alone
ComputeFleetDepsOnPlacementGroups ==
    {<<"TerminateComputeFleetCustomResource", n.id>> : n \in Range(_add_placement_groups(config.queues))}

\* the edges of _add_cleanup_custom_resource
ComputeFleetDeps ==
    {<<"TerminateComputeFleetCustomResource", n.id>> : n \in Range(_add_placement_groups(config.queues))}
    \cup (IF Truthy(compute_security_group)
          THEN {<<"TerminateComputeFleetCustomResource", "ComputeSecurityGroup">>}
          ELSE {})

\* the compute fleet is built for Slurm alone
ComputeFleetOnlyForSlurm == _condition_is_slurm

\* `if not self._condition_is_batch()`
ComputeFleetCreated == ~_condition_is_batch

ComputeFleetConstruct ==
    /\ pc = "ComputeFleetConstruct"
    /\ UNCHANGED <<run, faults>>
    /\ Emit("_add_byos_substack",
            IF ComputeFleetCreated
            THEN <<MkNode("ComputeFleet", "root", "ComputeFleetConstruct", [stack |-> "stack"])>>
                 \o ComputeFleetResources
            ELSE <<>>,
            IF ComputeFleetCreated THEN ComputeFleetDeps ELSE {})
    /\ compute_fleet_resources' = IF ComputeFleetCreated THEN Ref("ComputeFleet") ELSE PyNone
    /\ role_statements' =
          IF ComputeFleetCreated /\ Truthy(cleanup_lambda_role)
          THEN role_statements \o <<"DescribeInstances", "FleetTerminatePolicy">>
          ELSE role_statements
    /\ UNCHANGED <<config, existing_mount_targets, storage_index, head_security_group,
                   compute_security_group, shared_storage_mappings,
                   shared_storage_options, shared_storage_attributes,
                   scheduler_resources, byos_stack, cleanup_lambda_role,
                   head_dna, api_calls, api_queries>>

\* ----------------------------------------------------- byos substack

\* a nested stack is attached for byos even when no template is configured
ByosStackWithoutTemplate == _condition_is_byos

\* the early return of _add_byos_substack, negated
ByosStackCreated == _condition_is_byos /\ Truthy(config.byos_template)

_add_byos_substack ==
    /\ pc = "_add_byos_substack"
    /\ UNCHANGED <<run, faults>>
    /\ Emit("_add_wait_condition",
            IF ByosStackCreated
            THEN <<MkNode("ByosStack", "root", "Stack", [template_url |-> "byos_template_url"])>>
            ELSE <<>>,
            {})
    /\ byos_stack' = IF ByosStackCreated THEN Ref("ByosStack") ELSE PyNone
    /\ UNCHANGED <<config, existing_mount_targets, storage_index, head_security_group,
                   compute_security_group, shared_storage_mappings,
                   shared_storage_options, shared_storage_attributes,
                   scheduler_resources, compute_fleet_resources, cleanup_lambda_role,
                   role_statements, head_dna, api_calls, api_queries>>

\* ---------------------------------------------------- wait condition

\* self.timestamp, the time of the run
\* self.timestamp
Timestamp == run.clock.seconds

_add_wait_condition ==
    /\ pc = "_add_wait_condition"
    /\ UNCHANGED <<run, faults>>
    /\ Emit("_add_head_node",
            <<MkNode("HeadNodeWaitConditionHandle" \o Timestamp, "root", "WaitConditionHandle",
                     [count |-> 0]),
              MkNode("HeadNodeWaitCondition" \o Timestamp, "root", "WaitCondition",
                     [count |-> 1])>>,
            {})
    /\ UNCHANGED <<config, existing_mount_targets, storage_index, head_security_group,
                   compute_security_group, shared_storage_mappings,
                   shared_storage_options, shared_storage_attributes,
                   scheduler_resources, compute_fleet_resources, byos_stack,
                   cleanup_lambda_role, role_statements, head_dna, api_calls, api_queries>>

\* --------------------------------------------------------- head node


\* the additional interfaces of the head node launch template
HeadNetworkInterfaces ==
    <<[device_index |-> 0, network_interface_id |-> Ref("HeadNodeENI")]>>
    \o [k \in 1..(config.head_node.max_network_interface_count - 1) |->
            [device_index |-> k,
             network_card_index |-> k,
             groups |-> _get_head_node_security_groups_full,
             subnet_id |-> config.head_node.subnet_id]]

\* dna_json: the entries of "cluster", and "run_list"; the model's configs
\* declare no custom actions, local storage, proxy, dcv or packages
HeadDna ==
    [built |-> TRUE,
     stack_name |-> PyStr("stack"),
     stack_arn |-> Ref("AWS::StackId"),
     byos_substack_arn |-> IF Truthy(byos_stack) THEN byos_stack ELSE EmptyStr,
     raid_vol_ids |-> get_shared_storage_ids_by_type("RAID"),
     raid_parameters |-> get_shared_storage_options_by_type("RAID"),
     disable_hyperthreading_manually |-> TrueFalse(FALSE),
     base_os |-> PyStr("alinux2"),
     preinstall |-> NONE,
     preinstall_args |-> NONE,
     postinstall |-> NONE,
     postinstall_args |-> NONE,
     region |-> Ref("AWS::Region"),
     efs_fs_id |-> get_shared_storage_ids_by_type("EFS"),
     efs_shared_dir |-> get_shared_storage_options_by_type("EFS"),
     fsx_fs_id |-> get_shared_storage_ids_by_type("FSX"),
     fsx_mount_name |-> IF shared_storage_attributes.present
                        THEN shared_storage_attributes.MountName ELSE EmptyStr,
     fsx_dns_name |-> IF shared_storage_attributes.present
                      THEN shared_storage_attributes.DNSName ELSE EmptyStr,
     fsx_options |-> get_shared_storage_options_by_type("FSX"),
     volume |-> get_shared_storage_ids_by_type("EBS"),
     scheduler |-> PyStr(config.scheduler),
     ephemeral_dir |-> PyStr("/scratch"),
     ebs_shared_dirs |-> get_shared_storage_options_by_type("EBS"),
     proxy |-> NONE,
     dns_domain |-> IF _condition_is_slurm /\ Truthy(scheduler_resources.cluster_hosted_zone)
                    THEN PyStr("pcluster.") ELSE EmptyStr,
     hosted_zone |-> IF _condition_is_slurm /\ Truthy(scheduler_resources.cluster_hosted_zone)
                     THEN scheduler_resources.cluster_hosted_zone ELSE EmptyStr,
     node_type |-> PyStr("HeadNode"),
     cluster_user |-> PyStr("ec2-user"),
     ddb_table |-> IF _condition_is_slurm THEN scheduler_resources.dynamodb_table ELSE NONE,
     log_group_name |-> IF config.is_cw_logging_enabled THEN LogGroupName ELSE NONE,
     dcv_enabled |-> PyStr("false"),
     dcv_port |-> NONE,
     enable_intel_hpc_platform |-> TrueFalse(FALSE),
     cw_logging_enabled |-> TrueFalse(config.is_cw_logging_enabled),
     cluster_s3_bucket |-> PyStr("bucket"),
     cluster_config_s3_key |-> PyStr("artifacts/configs/cluster-config.yaml"),
     cluster_config_version |-> PyStr("version"),
     instance_types_data_s3_key |-> PyStr("artifacts/configs/instance-types-data.json"),
     custom_node_package |-> EmptyStr,
     custom_awsbatchcli_package |-> EmptyStr,
     head_node_imds_secured |-> PyStr("true"),
     run_list |-> PyStr("recipe[aws-parallelcluster::" \o config.scheduler \o "_config]")]

\* the head node has no edge on the compute fleet
HeadNodeDepsNoFleet ==
    IF _condition_is_byos /\ Truthy(byos_stack) THEN {<<"HeadNode", "ByosStack">>} ELSE {}

\* node.add_dependency / add_depends_on of the head node instance
HeadNodeDeps ==
    (IF ~_condition_is_batch THEN {<<"HeadNode", "ComputeFleet">>} ELSE {})
    \cup (IF _condition_is_byos /\ Truthy(byos_stack) THEN {<<"HeadNode", "ByosStack">>} ELSE {})

_add_head_node ==
    /\ pc = "_add_head_node"
    /\ UNCHANGED <<run, faults>>
    /\ Emit("AwsBatchConstruct",
            <<MkNode("HeadNodeLaunchTemplate", "root", "LaunchTemplate",
                     [network_interfaces |-> HeadNetworkInterfaces]),
              MkNode("HeadNode", "root", "Instance",
                     [launch_template_id |-> Ref("HeadNodeLaunchTemplate")])>>,
            HeadNodeDeps)
    /\ config' = ConfigAfterHeadGroups
    /\ head_dna' = HeadDna
    /\ UNCHANGED <<existing_mount_targets, storage_index, head_security_group,
                   compute_security_group, shared_storage_mappings,
                   shared_storage_options, shared_storage_attributes,
                   scheduler_resources, compute_fleet_resources, byos_stack,
                   cleanup_lambda_role, role_statements, api_calls, api_queries>>

\* ------------------------------------------------ scheduler: AWS Batch

\* the children of the AwsBatch construct: a compute environment and a job queue
AwsBatchResources ==
    <<MkNode("ComputeEnvironment", "AwsBatch", "ComputeEnvironment", [name |-> "ce"]),
      MkNode("JobQueue", "AwsBatch", "JobQueue", [name |-> "jq"])>>

\* self.scheduler_resources = AwsBatchConstruct(...) if self._condition_is_batch()
AwsBatchIfBatch ==
    IF _condition_is_batch
    THEN <<MkNode("AwsBatch", "root", "AwsBatchConstruct", [stack |-> "stack"])>> \o AwsBatchResources
    ELSE <<>>

AwsBatchConstruct ==
    /\ pc = "AwsBatchConstruct"
    /\ UNCHANGED <<run, faults>>
    /\ Emit("_add_outputs", AwsBatchIfBatch, {})
    /\ scheduler_resources' =
          IF AwsBatchIfBatch # <<>>
          THEN [kind |-> "awsbatch", cluster_hosted_zone |-> PyNone, dynamodb_table |-> PyNone]
          ELSE scheduler_resources
    /\ UNCHANGED <<config, existing_mount_targets, storage_index, head_security_group,
                   compute_security_group, shared_storage_mappings,
                   shared_storage_options, shared_storage_attributes,
                   compute_fleet_resources, byos_stack, cleanup_lambda_role,
                   role_statements, head_dna, api_calls, api_queries>>

\* ----------------------------------------------------------- outputs

RECURSIVE JoinStrs(_)
JoinStrs(strs) ==
    IF strs = <<>> THEN <<>>
    ELSE IF Len(strs) = 1 THEN Str(strs[1])
    ELSE Str(strs[1]) \o <<",">> \o JoinStrs(Tail(strs))

StorageIdsOutput(storage_type) ==
    MkNode(storage_type \o "Ids", "root", "Output",
           [value |-> JoinStrs([k \in 1..Len(shared_storage_mappings[storage_type]) |->
                                   shared_storage_mappings[storage_type][k].id])])

_add_outputs ==
    /\ pc = "_add_outputs"
    /\ UNCHANGED <<run, faults>>
    /\ Emit("apply_permissions_boundary",
            <<StorageIdsOutput("EBS"), StorageIdsOutput("RAID"),
              StorageIdsOutput("EFS"), StorageIdsOutput("FSX"),
              MkNode("HeadNodeInstanceID", "root", "Output", [value |-> Str(Ref("HeadNode"))]),
              MkNode("HeadNodePrivateIP", "root", "Output",
                     [value |-> Str(Attr("HeadNode", "PrivateIp"))]),
              MkNode("HeadNodePrivateDnsName", "root", "Output",
                     [value |-> Str(Attr("HeadNode", "PrivateDnsName"))])>>,
            {})
    /\ UNCHANGED <<config, existing_mount_targets, storage_index, head_security_group,
                   compute_security_group, shared_storage_mappings,
                   shared_storage_options, shared_storage_attributes,
                   scheduler_resources, compute_fleet_resources, byos_stack,
                   cleanup_lambda_role, role_statements, head_dna, api_calls, api_queries>>

\* ------------------------------------------------ permissions boundary

\* try: apply_permissions_boundary(cluster_config.iam.permissions_boundary, self)
\* except AttributeError: pass
\* Without an iam section the argument itself raises AttributeError; with one
\* the call returns or raises. AttributeError is passed over and __init__
\* returns the stack; any other exception leaves __init__.
apply_permissions_boundary ==
    /\ pc = "apply_permissions_boundary"
    /\ IF config.iam.present /\ faults.permissions_boundary = "ClientError"
       THEN /\ pc' = "failed"
            /\ error' = "ClientError"
       ELSE /\ pc' = "done"
            /\ UNCHANGED error
    /\ UNCHANGED <<config, existing_mount_targets, storage_index, nodes, deps,
                   head_security_group, compute_security_group,
                   shared_storage_mappings, shared_storage_options,
                   shared_storage_attributes, scheduler_resources,
                   compute_fleet_resources, byos_stack, cleanup_lambda_role,
                   role_statements, head_dna, api_calls, api_queries, run, faults>>

\* ------------------------------------------------------ specification

\* the state ClusterCdkStack.__init__ builds before _add_resources does its work
InitRun ==
    /\ pc = "_add_parameters"
    /\ storage_index = 1
    /\ nodes = <<>>
    /\ deps = {}
    /\ head_security_group = PyNone
    /\ compute_security_group = PyNone
    /\ shared_storage_mappings = [t \in SharedStorageTypes |-> <<>>]
    /\ shared_storage_options = [t \in SharedStorageTypes |-> <<>>]
    /\ shared_storage_attributes = [present |-> FALSE, MountName |-> PyNone, DNSName |-> PyNone]
    /\ scheduler_resources = NoSchedulerResources
    /\ compute_fleet_resources = PyNone
    /\ byos_stack = PyNone
    /\ cleanup_lambda_role = PyNone
    /\ role_statements = <<>>
    /\ head_dna = [built |-> FALSE]
    /\ api_calls = <<>>
    /\ api_queries = <<>>
    /\ error = "none"

NoLambdaRole == [value |-> PyNone, implied |-> FALSE]

LambdaRoles ==
    {NoLambdaRole,
     [value |-> PyStr("arn:role/user"), implied |-> FALSE],
     [value |-> PyStr("arn:role/default"), implied |-> TRUE]}

\* cluster shapes: every scheduler, with and without a byos template, user
\* supplied and managed security groups, a few storage declarations
TopologyConfigs ==
    {MkConfig(scheduler, byos_template, head_sgs, head_additional_sgs, "subnet-a1",
              elastic_ip, NoLambdaRole, queues, shared_storage) :
        scheduler \in Schedulers,
        byos_template \in {PyNone, PyStr("s3://bucket/byos.yaml")},
        head_sgs \in {<<>>, <<PyStr("sg-head")>>},
        head_additional_sgs \in {<<>>, <<PyStr("sg-extra")>>},
        elastic_ip \in {PyNone},
        queues \in QueueLists(BOOLEAN, {"subnet-a2"}),
        shared_storage \in {<<>>, <<EfsUnset, FsxAllSet>>}}

Init ==
    /\ config \in TopologyConfigs
    /\ existing_mount_targets = {}
    /\ InitRun
    /\ run = FirstRun(PyNone)
    /\ faults = NoFaults

\* storage declarations of every type, in every order
StorageConfigs ==
    {MkConfig(scheduler, PyNone, <<>>, <<>>, "subnet-a1",
              PyNone, NoLambdaRole, queues, shared_storage) :
        scheduler \in {"slurm"},
        queues \in {<<QueueShape(1, FALSE, "subnet-a2")>>},
        shared_storage \in SeqsOf(StorageDeclarations, 0, MaxStorage)}

InitStorage ==
    /\ config \in StorageConfigs
    /\ existing_mount_targets = {}
    /\ InitRun
    /\ run = FirstRun(PyNone)
    /\ faults = NoFaults

\* EFS declarations against every placement of the subnets and every inventory
EfsConfigs ==
    {MkConfig(scheduler, PyNone, <<>>, <<>>, head_subnet,
              PyNone, NoLambdaRole, queues, shared_storage) :
        scheduler \in {"slurm"},
        head_subnet \in Subnets,
        queues \in QueueLists({FALSE}, Subnets),
        shared_storage \in SeqsOf({EfsUnset, EfsExisting}, 1, MaxStorage)}

InitEfs ==
    /\ config \in EfsConfigs
    /\ existing_mount_targets \in MountTargetInventories
    /\ InitRun
    /\ run = FirstRun(PyNone)
    /\ faults = NoFaults

\* the kinds of a compute resource of the given name and instance type
ComputeResourceKinds(name, instance_type) ==
    {MkComputeResource(name, instance_type, efa, max_network_interface_count) :
        efa \in {NoEfa, EfaDisabled, EfaEnabled},
        max_network_interface_count \in 1..MaxInterfaces}

\* the first queue of a fleet: one or two compute resources of any kind
FleetQueues ==
    {MkQueue("q1", own_sgs, "subnet-a1", assign_public_ip, placement_group, compute_resources) :
        own_sgs \in {<<>>, <<PyStr("sg-q1")>>},
        assign_public_ip \in {PyNone, PyBool(TRUE), PyBool(FALSE)},
        placement_group \in {NoPlacementGroup, ManagedPlacementGroup,
                             SuppliedPlacementGroup, DisabledPlacementGroup},
        compute_resources \in
            {<<cr1>> : cr1 \in ComputeResourceKinds("cr1", "c5.xlarge")}
            \cup {<<cr1, cr2>> : cr1 \in ComputeResourceKinds("cr1", "c5.xlarge"),
                                 cr2 \in ComputeResourceKinds("cr2", "p4d.24xlarge")}}

\* fleets of 1..MaxQueues queues: the first of every shape, the others
\* fixed, and one shared volume
FleetConfigs ==
    {MkConfig("slurm", PyNone, <<>>, <<>>, "subnet-a1", PyNone, NoLambdaRole,
              <<queue>> \o [i \in 1..(n - 1) |-> QueueShape(i + 1, FALSE, "subnet-a2")],
              <<EbsUnset>>) :
        queue \in FleetQueues, n \in 1..MaxQueues}

InitFleet ==
    /\ config \in FleetConfigs
    /\ existing_mount_targets = {}
    /\ InitRun
    /\ run = FirstRun(PyNone)
    /\ faults = NoFaults

Next ==
    \/ _add_parameters
    \/ _add_cluster_log_group
    \/ _add_security_groups
    \/ _add_head_eni
    \/ _add_cleanup_resources_lambda
    \/ _add_shared_storage
    \/ SharedStorageDone
    \/ SlurmConstruct
    \/ ComputeFleetConstruct
    \/ _add_byos_substack
    \/ _add_wait_condition
    \/ _add_head_node
    \/ AwsBatchConstruct
    \/ _add_outputs
    \/ apply_permissions_boundary

Spec == Init /\ [][Next]_vars

SpecStorage == InitStorage /\ [][Next]_vars

SpecEfs == InitEfs /\ [][Next]_vars

SpecFleet == InitFleet /\ [][Next]_vars

\* ------------------------------------------------------- two syntheses

\* the bootstrap payloads of the stack: that of the head node, and those of
\* the compute resources by launch template
Payloads ==
    [head |-> head_dna,
     compute |-> {<<nodes[i].id, nodes[i].props.user_data>> :
                     i \in {k \in 1..Len(nodes) : /\ nodes[k].kind = "LaunchTemplate"
                                                  /\ nodes[k].scope = "ComputeFleet"}}]

\* the log group name of a create, as it is passed to an update
PassedLogGroupName == PyStr("/aws/parallelcluster/stack-202110310900")

\* ClusterCdkStack(...) once more in the same process: the same config object
\* as the first call left it, the same inventory, a later clock, a new
\* construct tree; the log_group_name argument
\* is that of the first call or the name the first call gave the log group
Resynthesize ==
    /\ pc = "done"
    /\ run.n = 1
    /\ \E log_group_name \in {run.log_group_name, LogGroupName} :
          run' = [n |-> 2, clock |-> Clocks[2], log_group_name |-> log_group_name,
                  previous |-> <<Payloads>>]
    /\ pc' = "_add_parameters"
    /\ storage_index' = 1
    /\ nodes' = <<>>
    /\ deps' = {}
    /\ head_security_group' = PyNone
    /\ compute_security_group' = PyNone
    /\ shared_storage_mappings' = [t \in SharedStorageTypes |-> <<>>]
    /\ shared_storage_options' = [t \in SharedStorageTypes |-> <<>>]
    /\ shared_storage_attributes' = [present |-> FALSE, MountName |-> PyNone, DNSName |-> PyNone]
    /\ scheduler_resources' = NoSchedulerResources
    /\ compute_fleet_resources' = PyNone
    /\ byos_stack' = PyNone
    /\ cleanup_lambda_role' = PyNone
    /\ role_statements' = <<>>
    /\ head_dna' = [built |-> FALSE]
    /\ UNCHANGED <<config, existing_mount_targets, api_calls, api_queries, error, faults>>

\* clusters of every scheduler, with and without logging, storage, user
\* supplied head node security groups and a lambda functions role
TwiceConfigs ==
    {[MkConfig(scheduler, PyNone, head_sgs, <<PyStr("sg-extra")>>, "subnet-a1",
               PyNone, lambda_role, queues, shared_storage)
          EXCEPT !.is_cw_logging_enabled = is_cw_logging_enabled] :
        scheduler \in Schedulers,
        lambda_role \in LambdaRoles,
        head_sgs \in {<<>>, <<PyStr("sg-head")>>},
        queues \in QueueLists({FALSE}, {"subnet-a2"}),
        shared_storage \in {<<>>, <<EbsUnset, FsxAllSet>>},
        is_cw_logging_enabled \in BOOLEAN}

InitTwice ==
    /\ config \in TwiceConfigs
    /\ existing_mount_targets = {}
    /\ InitRun
    /\ run \in {FirstRun(PyNone), FirstRun(PassedLogGroupName)}
    /\ faults = NoFaults

NextTwice == Next \/ Resynthesize

\* ------------------------------------------------------------- naming

\* queue names and instance types whose concatenations can coincide:
\* "q1" + "c5.xlarge" = "q1c" + "5.xlarge"
NamingQueueNames == {"q1", "q1c"}
NamingInstanceTypes == {"c5.xlarge", "5.xlarge"}

\* a queue of one or two compute resources, of the same or of different
\* instance types
NamingQueues(name) ==
    {MkQueue(name, <<>>, "subnet-a2", PyNone, NoPlacementGroup, compute_resources) :
        compute_resources \in
            {<<MkComputeResource("cr1", t1, NoEfa, 1)>> : t1 \in NamingInstanceTypes}
            \cup {<<MkComputeResource("cr1", t1, NoEfa, 1), MkComputeResource("cr2", t2, NoEfa, 1)>> :
                     t1 \in NamingInstanceTypes, t2 \in NamingInstanceTypes}}

\* fleets of one queue, or of two queues of different names
NamingConfigs ==
    {MkConfig("slurm", PyNone, <<>>, <<>>, "subnet-a1", PyNone, NoLambdaRole, queues,
              <<EbsUnset>>) :
        queues \in {<<queue>> : queue \in UNION {NamingQueues(name) : name \in NamingQueueNames}}
                   \cup {<<queue1, queue2>> : queue1 \in NamingQueues("q1"),
                                              queue2 \in NamingQueues("q1c")}}

InitNaming ==
    /\ config \in NamingConfigs
    /\ existing_mount_targets = {}
    /\ InitRun
    /\ run = FirstRun(PyNone)
    /\ faults = NoFaults

SpecNaming == InitNaming /\ [][Next]_vars

\* ------------------------------------------------------------- faults

\* every set of lookups that raise, with every outcome of the boundary call
FaultSets ==
    [lookups : SUBSET LookupOps, permissions_boundary : BoundaryOutcomes]

\* clusters that make every kind of lookup: an elastic ip to attach, an
\* existing file system to mount, with and without an iam section
FaultConfigs ==
    {[MkConfig("slurm", PyNone, <<>>, <<>>, "subnet-a1", elastic_ip, NoLambdaRole,
               <<QueueShape(1, FALSE, "subnet-a2")>>, shared_storage)
          EXCEPT !.iam.present = iam_present] :
        elastic_ip \in {PyNone, PyStr("198.51.100.7")},
        shared_storage \in {<<>>, <<EfsExisting>>, <<EfsUnset>>},
        iam_present \in BOOLEAN}

InitFaults ==
    /\ config \in FaultConfigs
    /\ existing_mount_targets \in MountTargetInventories
    /\ InitRun
    /\ run = FirstRun(PyNone)
    /\ faults \in FaultSets

SpecFaults == InitFaults /\ [][Next]_vars

SpecTwice == InitTwice /\ [][NextTwice]_vars

\* ------------------------------------------------------------ claims

\* the statements of a run, in source order
Stages ==
    <<"_add_parameters", "_add_cluster_log_group", "_add_security_groups", "_add_head_eni", "_add_cleanup_resources_lambda",
      "_add_shared_storage", "SlurmConstruct", "ComputeFleetConstruct",
      "_add_byos_substack", "_add_wait_condition", "_add_head_node",
      "AwsBatchConstruct", "_add_outputs", "apply_permissions_boundary", "done">>

StageIndex(stage) == CHOOSE i \in 1..Len(Stages) : Stages[i] = stage

\* the run has executed the statement `stage`
Past(stage) == pc # "failed" /\ StageIndex(pc) > StageIndex(stage)

\* ingress rules that let one security group into another
CrossIngressRules ==
    {i \in NodesOfKind("SecurityGroupIngress") : nodes[i].props.group_id # nodes[i].props.peer}

IsCrossIngress(i, group, source) ==
    /\ nodes[i].props.group_id = group
    /\ nodes[i].props.peer_kind = "source_security_group_id"
    /\ nodes[i].props.peer = source
    /\ nodes[i].props.from_port = 0
    /\ nodes[i].props.to_port = 65535

\* C1: once the security groups are added, there are exactly two cross-ingress
\* rules (head from compute, compute from head, ports 0-65535) when the head
\* node has no user-supplied security groups and some queue has none either,
\* and no cross-ingress rule at all otherwise.
C1_CrossIngressPair ==
    Past("_add_security_groups") =>
        IF config.head_node.security_groups = <<>>
           /\ \E q \in 1..Len(config.queues) : config.queues[q].security_groups = <<>>
        THEN /\ Cardinality(CrossIngressRules) = 2
             /\ \E i \in CrossIngressRules : IsCrossIngress(i, "HeadNodeSecurityGroup", "ComputeSecurityGroup")
             /\ \E i \in CrossIngressRules : IsCrossIngress(i, "ComputeSecurityGroup", "HeadNodeSecurityGroup")
        ELSE CrossIngressRules = {}

C1_Witness ==
    /\ pc = "done"
    /\ config.head_node.security_groups = <<>>
    /\ Len(config.queues) = 2
    /\ config.queues[1].security_groups # <<>>
    /\ config.queues[2].security_groups = <<>>
    /\ Cardinality(CrossIngressRules) = 2

\* C2: a Slurm cluster gets the Slurm subsystem (hosted zone, state table) and
\* never an AwsBatch one; an awsbatch cluster gets the AwsBatch subsystem and
\* never a Slurm one; no cluster gets both.
C2_OneSchedulerBranch ==
    /\ ~(HasNode("Slurm") /\ HasNode("AwsBatch"))
    /\ ~(NodesInScope("Slurm") # {} /\ NodesInScope("AwsBatch") # {})
    /\ _condition_is_slurm =>
          /\ ~HasNode("AwsBatch") /\ NodesInScope("AwsBatch") = {}
          /\ Past("SlurmConstruct") =>
                /\ HasNode("Slurm")
                /\ \E i \in NodesInScope("Slurm") : nodes[i].kind = "HostedZone"
                /\ \E i \in NodesInScope("Slurm") : nodes[i].kind = "Table"
    /\ _condition_is_batch =>
          /\ ~HasNode("Slurm") /\ NodesInScope("Slurm") = {}
          /\ Past("AwsBatchConstruct") =>
                /\ HasNode("AwsBatch")
                /\ NodesInScope("AwsBatch") # {}

C2_Witness ==
    /\ pc = "done"
    /\ _condition_is_batch
    /\ HasNode("AwsBatch")
    /\ ~HasNode("Slurm")

ComputeFleetNodes == NodesInScope("ComputeFleet")

\* C3: with awsbatch no compute-fleet resource is ever created and the head
\* node has no edge on the compute fleet; with any other scheduler the head
\* node instance depends on the ComputeFleet construct, which, with its
\* launch templates and its fleet-termination resource, was created before it.
C3_HeadNodeAfterComputeFleet ==
    /\ _condition_is_batch =>
          /\ ~HasNode("ComputeFleet")
          /\ ComputeFleetNodes = {}
          /\ NodesOfKind("PlacementGroup") = {}
          /\ <<"HeadNode", "ComputeFleet">> \notin deps
    /\ (~_condition_is_batch /\ HasNode("HeadNode")) =>
          /\ <<"HeadNode", "ComputeFleet">> \in deps
          /\ NodeIndex("ComputeFleet") > 0
          /\ NodeIndex("ComputeFleet") < NodeIndex("HeadNode")
          /\ HasNode("TerminateComputeFleetCustomResource")
          /\ \A i \in ComputeFleetNodes : i < NodeIndex("HeadNode")

C3_Witness ==
    /\ pc = "done"
    /\ _condition_is_byos
    /\ <<"HeadNode", "ComputeFleet">> \in deps
    /\ NodeIndex("ComputeFleet") < NodeIndex("HeadNode")

\* the number of compute resources of the cluster
RECURSIVE ComputeResourceCount(_)
ComputeResourceCount(queues) ==
    IF queues = <<>> THEN 0
    ELSE Len(Head(queues).compute_resources) + ComputeResourceCount(Tail(queues))

\* C4 as stated: with byos no compute-fleet resource and no Slurm or Batch
\* subsystem is in the graph.
C4_ByosAddsNoComputeFleet ==
    _condition_is_byos =>
        /\ ~HasNode("ComputeFleet")
        /\ ComputeFleetNodes = {}
        /\ ~HasNode("Slurm")
        /\ ~HasNode("AwsBatch")

\* C4 amended: with byos neither the Slurm nor the AwsBatch subsystem is
\* added, and the only byos-specific node is the nested stack (there when a
\* template is configured); the compute fleet is built as for Slurm: one
\* launch template per compute resource, one placement group per queue that
\* asks for a managed one, and the fleet-termination resource.
C4_ByosKeepsComputeFleet ==
    _condition_is_byos =>
        /\ ~HasNode("Slurm") /\ NodesInScope("Slurm") = {}
        /\ ~HasNode("AwsBatch") /\ NodesInScope("AwsBatch") = {}
        /\ Past("ComputeFleetConstruct") =>
              /\ HasNode("ComputeFleet")
              /\ HasNode("TerminateComputeFleetCustomResource")
              /\ Cardinality({i \in ComputeFleetNodes : nodes[i].kind = "LaunchTemplate"})
                    = ComputeResourceCount(config.queues)
              /\ Cardinality(NodesOfKind("PlacementGroup"))
                    = Cardinality({q \in 1..Len(config.queues) :
                                      PlacementGroupManaged(config.queues[q])})
        /\ Past("_add_byos_substack") => (HasNode("ByosStack") <=> Truthy(config.byos_template))

C4_Witness ==
    /\ pc = "done"
    /\ _condition_is_byos
    /\ ~Truthy(config.byos_template)
    /\ Len(config.queues) = 2
    /\ Cardinality({i \in ComputeFleetNodes : nodes[i].kind = "LaunchTemplate"}) = 3

\* C5: unless the scheduler is byos and a template is configured, no ByosStack
\* node is added, the head node has no edge on one, the head payload's
\* byos_substack_arn is the empty string, and the run does not fail: it goes
\* on to its end.
C5_NoByosStackWithoutTemplate ==
    ~(_condition_is_byos /\ Truthy(config.byos_template)) =>
        /\ ~HasNode("ByosStack")
        /\ byos_stack = PyNone
        /\ <<"HeadNode", "ByosStack">> \notin deps
        /\ head_dna.built => head_dna.byos_substack_arn = EmptyStr
        /\ pc # "failed"
        /\ error = "none"
        /\ pc = "done" \/ ENABLED Next

C5_Witness ==
    /\ pc = "done"
    /\ _condition_is_byos
    /\ ~Truthy(config.byos_template)
    /\ HasNode("HeadNode")
    /\ head_dna.built
    /\ head_dna.byos_substack_arn = EmptyStr

AvailZones == {SubnetAvailZone(subnet_id) : subnet_id \in Subnets}

\* the subnets a file system is mounted from: the compute subnets and the head subnet
MountSubnets == Range(config.compute_subnet_ids) \cup {config.head_node.subnet_id}

\* the mount targets created for the k-th EFS declaration in zone az
MountTargetsOf(k, az) ==
    {i \in NodesOfKind("MountTarget") :
        nodes[i].id = "EFS" \o ToString(k - 1) \o "MT" \o az}

\* the k-th EFS declaration needs a mount target in az: a subnet lies there,
\* and the file system is new or the inventory holds no mount target there
MountTargetExpected(k, az) ==
    LET shared_efs == shared_storage_mappings["EFS"][k].config
    IN  /\ \E subnet_id \in MountSubnets : SubnetAvailZone(subnet_id) = az
        /\ \/ IsNone(shared_efs.file_system_id)
           \/ <<shared_efs.file_system_id.v[1], az>> \notin existing_mount_targets

\* C6: for every EFS declaration processed and every availability zone there
\* is exactly one mount target when a compute or head subnet lies in the zone
\* and the file system is new or has no mount target there, and none
\* otherwise; so never two in one zone, and the run does not fail on it.
C6_OneMountTargetPerZone ==
    /\ pc # "failed"
    /\ \A k \in 1..Len(shared_storage_mappings["EFS"]) : \A az \in AvailZones :
          Cardinality(MountTargetsOf(k, az)) = IF MountTargetExpected(k, az) THEN 1 ELSE 0

\* an existing file system mounted from two distinct subnets of one zone
C6_Witness ==
    /\ pc = "done"
    /\ config.shared_storage = <<EfsExisting>>
    /\ config.compute_subnet_ids = <<"subnet-a1">>
    /\ config.head_node.subnet_id = "subnet-a2"
    /\ existing_mount_targets = {}
    /\ Cardinality(NodesOfKind("MountTarget")) = 1
    /\ Cardinality(MountTargetsOf(1, "az-a")) = 1

OptionTypes == {"FSX", "EFS", "RAID"}

\* position and name of the optional fields of each option record
OptionalFields(storage_type) ==
    CASE storage_type = "FSX" ->
            {<<3, "storage_capacity">>, <<4, "kms_key_id">>, <<5, "imported_file_chunk_size">>,
             <<6, "export_path">>, <<7, "import_path">>, <<8, "weekly_maintenance_start_time">>,
             <<9, "deployment_type">>, <<10, "per_unit_storage_throughput">>,
             <<11, "daily_automatic_backup_start_time">>,
             <<12, "automatic_backup_retention_days">>, <<13, "copy_tags_to_backups">>,
             <<14, "backup_id">>, <<15, "auto_import_policy">>, <<16, "fsx_storage_type">>,
             <<17, "drive_cache_type">>, <<18, "existing_mount_name">>,
             <<19, "existing_dns_name">>}
      [] storage_type = "EFS" ->
            {<<3, "performance_mode">>, <<4, "kms_key_id">>, <<5, "provisioned_throughput">>,
             <<6, "encrypted">>, <<7, "throughput_mode">>}
      [] OTHER ->
            {<<6, "iops">>, <<7, "encrypted">>, <<8, "kms_key_id">>, <<9, "throughput">>}

\* position and name of the boolean field of each option record
BooleanField(storage_type) ==
    CASE storage_type = "FSX" -> <<13, "copy_tags_to_backups">>
      [] storage_type = "EFS" -> <<6, "encrypted">>
      [] OTHER -> <<7, "encrypted">>

\* the declaration the option string of the type was rendered from
LastDeclaration(storage_type) ==
    shared_storage_mappings[storage_type][Len(shared_storage_mappings[storage_type])].config

\* the option string of the type was rendered, from a mount dir without a comma
Rendered(storage_type) ==
    /\ shared_storage_mappings[storage_type] # <<>>
    /\ "," \notin Range(LastDeclaration(storage_type).mount_dir.v)

OptionField(storage_type, position) == Split(shared_storage_options[storage_type])[position]

\* C8 as stated: every optional field that is None in the declaration is
\* "NONE" in the FSx, EFS and RAID option strings.
C8_AbsentFieldsRenderNONE ==
    \A storage_type \in OptionTypes :
        Rendered(storage_type) =>
            \A f \in OptionalFields(storage_type) :
                IsNone(LastDeclaration(storage_type)[f[2]]) =>
                    OptionField(storage_type, f[1]) = <<"NONE">>

\* C9 as stated: the boolean field of each option string is "true" or "false"
\* when the declaration sets it and "NONE" when it does not.
C9_BooleansRenderLowercase ==
    \A storage_type \in OptionTypes :
        Rendered(storage_type) =>
            LET f == BooleanField(storage_type)
                value == LastDeclaration(storage_type)[f[2]]
            IN  OptionField(storage_type, f[1]) =
                    IF IsNone(value) THEN <<"NONE">>
                    ELSE IF value.v THEN <<"true">> ELSE <<"false">>

\* the number of fields of each option record
FieldCount(storage_type) ==
    CASE storage_type = "FSX" -> 19
      [] storage_type = "EFS" -> 9
      [] OTHER -> 9

\* C10: each option string rendered from a mount dir without a comma has its
\* fixed number of fields (19 FSx, 9 EFS, 9 RAID), whatever is set and whether
\* the resource is created or reused; the mount dir comes first, FSx and EFS
\* have the file system id second, FSx has storage type and drive cache at 16
\* and 17, and the last two EFS fields are "NONE".
C10_FixedFieldCount ==
    /\ \A storage_type \in OptionTypes :
          Rendered(storage_type) =>
              /\ Len(Split(shared_storage_options[storage_type])) = FieldCount(storage_type)
              /\ OptionField(storage_type, 1) = LastDeclaration(storage_type).mount_dir.v
    /\ Rendered("FSX") =>
          /\ OptionField("FSX", 2)
                = Str(shared_storage_mappings["FSX"][Len(shared_storage_mappings["FSX"])].id)
          /\ OptionField("FSX", 16) = Str(Or(LastDeclaration("FSX").fsx_storage_type, NONE))
          /\ OptionField("FSX", 17) = Str(Or(LastDeclaration("FSX").drive_cache_type, NONE))
    /\ Rendered("EFS") =>
          /\ OptionField("EFS", 2)
                = Str(shared_storage_mappings["EFS"][Len(shared_storage_mappings["EFS"])].id)
          /\ OptionField("EFS", 8) = <<"NONE">>
          /\ OptionField("EFS", 9) = <<"NONE">>

\* a created FSx with nothing set and a reused EFS, both rendered
C10_Witness ==
    /\ pc = "done"
    /\ Rendered("FSX") /\ LastDeclaration("FSX") = FsxUnset
    /\ Rendered("EFS") /\ LastDeclaration("EFS") = EfsExisting
    /\ Len(Split(shared_storage_options["FSX"])) = 19
    /\ Len(Split(shared_storage_options["EFS"])) = 9

\* -- storage resources

\* the declaration at position k of the id list of the type
Declared(storage_type, k) == shared_storage_mappings[storage_type][k].config

\* the id recorded at position k of the id list of the type
RecordedId(storage_type, k) == shared_storage_mappings[storage_type][k].id

\* the nodes with this construct id
NodesWithId(id) == {i \in 1..Len(nodes) : nodes[i].id = id}

\* C11: the file system resource of every created FSx declaration has drive
\* cache type "NONE" on HDD storage without a declared drive cache, the
\* declared value on HDD storage with one, and no drive cache type at all on
\* any other storage type, whatever the declaration says.
C11_FsxDriveCache ==
    \A k \in 1..Len(shared_storage_mappings["FSX"]) :
        LET shared_fsx == Declared("FSX", k)
            id == "FSX" \o ToString(k - 1)
        IN  FsxCreated(shared_fsx) =>
                /\ Cardinality(NodesWithId(id)) = 1
                /\ \A i \in NodesWithId(id) :
                      nodes[i].props.drive_cache_type =
                          IF shared_fsx.fsx_storage_type # PyStr("HDD") THEN PyNone
                          ELSE IF IsNone(shared_fsx.drive_cache_type) THEN PyStr("NONE")
                          ELSE shared_fsx.drive_cache_type

\* an HDD file system without a drive cache next to an SSD one that declares one
C11_Witness ==
    /\ pc = "done"
    /\ Len(shared_storage_mappings["FSX"]) = 2
    /\ Declared("FSX", 1).fsx_storage_type = PyStr("HDD")
    /\ IsNone(Declared("FSX", 1).drive_cache_type)
    /\ nodes[NodeIndex("FSX0")].props.drive_cache_type = PyStr("NONE")
    /\ Declared("FSX", 2).fsx_storage_type = PyStr("SSD")
    /\ Declared("FSX", 2).drive_cache_type = PyStr("READ")
    /\ nodes[NodeIndex("FSX1")].props.drive_cache_type = PyNone

\* the existing id a declaration supplies, if any
ExistingId(storage_type, storage) ==
    IF storage_type = "EBS" THEN storage.volume_id ELSE storage.file_system_id

ResourceKind(storage_type) ==
    CASE storage_type = "FSX" -> "FSxFileSystem"
      [] storage_type = "EFS" -> "EFSFileSystem"
      [] OTHER -> "Volume"

\* C12: an FSx, EFS or EBS declaration that supplies an existing id gets no
\* resource of its own and has the supplied id recorded in the id list of its
\* type; one without an existing id (and with a mount dir) gets exactly one
\* file system or volume, whose reference is recorded.
C12_ReuseOrCreate ==
    \A storage_type \in {"FSX", "EFS", "EBS"} :
        \A k \in 1..Len(shared_storage_mappings[storage_type]) :
            LET storage == Declared(storage_type, k)
                id == storage_type \o ToString(k - 1)
            IN  IF Truthy(ExistingId(storage_type, storage))
                THEN /\ NodesWithId(id) = {}
                     /\ RecordedId(storage_type, k) = ExistingId(storage_type, storage)
                ELSE Truthy(storage.mount_dir) =>
                     /\ Cardinality(NodesWithId(id)) = 1
                     /\ \A i \in NodesWithId(id) : nodes[i].kind = ResourceKind(storage_type)
                     /\ RecordedId(storage_type, k) = Ref(id)

\* an existing volume declared after a volume to create
C12_Witness ==
    /\ pc = "done"
    /\ Len(shared_storage_mappings["EBS"]) = 2
    /\ RecordedId("EBS", 1) = Ref("EBS0")
    /\ HasNode("EBS0")
    /\ RecordedId("EBS", 2) = PyStr("vol-existing")
    /\ ~HasNode("EBS1")
    /\ Cardinality(NodesOfKind("Volume")) = 1

\* the mount dirs of the EBS declarations processed, in order
EbsMountDirList == [k \in 1..Len(shared_storage_mappings["EBS"]) |-> Declared("EBS", k).mount_dir]

\* C13: the EBS option string is the comma-joined list of the mount dirs of
\* the EBS declarations processed, in declaration order, with no leading or
\* trailing comma; it has as many entries as the EBS id list, and its i-th
\* entry is the mount dir of the declaration the i-th id belongs to.
C13_EbsMountDirsInOrder ==
    /\ shared_storage_options["EBS"] = Join(EbsMountDirList)
    /\ shared_storage_mappings["EBS"] # <<>> =>
          /\ Len(Split(shared_storage_options["EBS"])) = Len(shared_storage_mappings["EBS"])
          /\ \A k \in 1..Len(shared_storage_mappings["EBS"]) :
                Split(shared_storage_options["EBS"])[k] = Declared("EBS", k).mount_dir.v
          /\ Head(shared_storage_options["EBS"]) # ","
          /\ shared_storage_options["EBS"][Len(shared_storage_options["EBS"])] # ","

\* a reused volume mounted before a created one
C13_Witness ==
    /\ pc = "done"
    /\ shared_storage_options["EBS"] = <<"/vol", ",", "/ebs">>
    /\ RecordedId("EBS", 1) = PyStr("vol-existing")
    /\ RecordedId("EBS", 2) = Ref("EBS1")

\* the RAID declarations among the first n declarations of the config
RECURSIVE RaidDeclared(_)
RaidDeclared(n) ==
    IF n = 0 THEN <<>>
    ELSE RaidDeclared(n - 1)
         \o (IF config.shared_storage[n].shared_storage_type = "RAID"
             THEN <<config.shared_storage[n]>> ELSE <<>>)

\* the volume names the RAID declarations get, from their order and counts
\* alone: the prefix counts the volumes of the declarations before
RECURSIVE RaidVolumeNames(_, _)
RaidVolumeNames(declarations, before) ==
    IF declarations = <<>> THEN <<>>
    ELSE LET n == Head(declarations).raid.number_of_volumes
         IN  [k \in 1..n |-> "RAID" \o ToString(before) \o "Volume" \o ToString(k - 1)]
             \o RaidVolumeNames(Tail(declarations), before + n)

\* C14: a RAID declaration of N volumes creates exactly the volumes
\* <prefix>Volume0 .. <prefix>Volume(N-1), in that order, and appends their
\* references to the RAID id list in the same order; the third field of the
\* RAID option string is N; the names follow from the declarations' order and
\* counts alone.
C14_RaidVolumes ==
    LET names == RaidVolumeNames(RaidDeclared(storage_index - 1), 0)
    IN  /\ Len(shared_storage_mappings["RAID"]) = Len(names)
        /\ \A k \in 1..Len(names) :
              /\ RecordedId("RAID", k) = Ref(names[k])
              /\ Cardinality(NodesWithId(names[k])) = 1
              /\ nodes[NodeIndex(names[k])].kind = "Volume"
              /\ k > 1 => NodeIndex(names[k - 1]) < NodeIndex(names[k])
        /\ Cardinality(NodesOfKind("Volume"))
              = Len(names) + Cardinality({k \in 1..Len(shared_storage_mappings["EBS"]) :
                                             RecordedId("EBS", k).t = "ref"})
        /\ shared_storage_mappings["RAID"] # <<>> =>
              LET last == Declared("RAID", Len(shared_storage_mappings["RAID"]))
              IN  "," \notin Range(last.mount_dir.v) =>
                     Split(shared_storage_options["RAID"])[3] = <<ToString(last.raid.number_of_volumes)>>

\* a RAID of two volumes followed by a RAID of one
C14_Witness ==
    /\ pc = "done"
    /\ Len(shared_storage_mappings["RAID"]) = 3
    /\ RecordedId("RAID", 1) = Ref("RAID0Volume0")
    /\ RecordedId("RAID", 2) = Ref("RAID0Volume1")
    /\ RecordedId("RAID", 3) = Ref("RAID2Volume0")
    /\ Split(shared_storage_options["RAID"])[3] = <<"1">>

\* -- compute fleet

\* the launch templates of compute resource c of queue q
LaunchTemplatesOf(q, c) ==
    {i \in NodesInScope("ComputeFleet") :
        /\ nodes[i].kind = "LaunchTemplate"
        /\ nodes[i].props.queue = config.queues[q].name
        /\ nodes[i].props.compute_resource = config.queues[q].compute_resources[c].name}

\* every compute resource of the fleet, as <<queue index, compute resource index>>
ComputeResources ==
    UNION {{<<q, c>> : c \in 1..Len(config.queues[q].compute_resources)} :
              q \in 1..Len(config.queues)}

EfaOn(compute_resource) == compute_resource.efa.present /\ compute_resource.efa.enabled

\* C15: every interface of the launch template of a compute resource has
\* interface type "efa" if that compute resource enables EFA and no interface
\* type otherwise, whatever the other compute resources of the queue enable.
C15_EfaPerComputeResource ==
    Past("ComputeFleetConstruct") =>
        \A qc \in ComputeResources :
            /\ Cardinality(LaunchTemplatesOf(qc[1], qc[2])) = 1
            /\ \A i \in LaunchTemplatesOf(qc[1], qc[2]) :
                  \A n \in 1..Len(nodes[i].props.network_interfaces) :
                      nodes[i].props.network_interfaces[n].interface_type =
                          IF EfaOn(config.queues[qc[1]].compute_resources[qc[2]])
                          THEN PyStr("efa") ELSE PyNone

\* a queue of two compute resources with two interfaces each, one with EFA
C15_Witness ==
    /\ pc = "done"
    /\ Len(config.queues[1].compute_resources) = 2
    /\ config.queues[1].compute_resources[1].efa = EfaDisabled
    /\ config.queues[1].compute_resources[2].efa = EfaEnabled
    /\ \A i \in LaunchTemplatesOf(1, 1) :
          /\ Len(nodes[i].props.network_interfaces) = 2
          /\ \A n \in 1..2 : nodes[i].props.network_interfaces[n].interface_type = PyNone
    /\ \A i \in LaunchTemplatesOf(1, 2) :
          /\ Len(nodes[i].props.network_interfaces) = 2
          /\ \A n \in 1..2 : nodes[i].props.network_interfaces[n].interface_type = PyStr("efa")
    /\ LaunchTemplatesOf(1, 1) # {} /\ LaunchTemplatesOf(1, 2) # {}

\* C16: the launch template of a compute resource of k interfaces has
\* exactly k interfaces, of device indexes 0..k-1; the primary one carries
\* the queue's public-ip setting when k = 1 and none otherwise; every further
\* one has its device index as network card index, no public-ip setting, and
\* the security groups and subnet of the primary one.
C16_InterfacesPerDeviceIndex ==
    Past("ComputeFleetConstruct") =>
        \A qc \in ComputeResources :
            LET queue == config.queues[qc[1]]
                k == queue.compute_resources[qc[2]].max_network_interface_count
            IN  \A i \in LaunchTemplatesOf(qc[1], qc[2]) :
                    LET nw == nodes[i].props.network_interfaces
                    IN  /\ Len(nw) = k
                        /\ \A n \in 1..Len(nw) : nw[n].device_index = n - 1
                        /\ nw[1].associate_public_ip_address =
                              IF k = 1 THEN queue.assign_public_ip ELSE PyNone
                        /\ nw[1].subnet_id = queue.subnet_id
                        /\ \A n \in 2..Len(nw) :
                              /\ nw[n].network_card_index = PyInt(n - 1)
                              /\ nw[n].associate_public_ip_address = PyNone
                              /\ nw[n].groups = nw[1].groups
                              /\ nw[n].subnet_id = nw[1].subnet_id

\* a queue that assigns public ips, with a compute resource of one interface
\* and one of three
C16_Witness ==
    /\ pc = "done"
    /\ config.queues[1].assign_public_ip = PyBool(TRUE)
    /\ Len(config.queues[1].compute_resources) = 2
    /\ config.queues[1].compute_resources[1].max_network_interface_count = 1
    /\ config.queues[1].compute_resources[2].max_network_interface_count = 3
    /\ \E i \in LaunchTemplatesOf(1, 1) :
          nodes[i].props.network_interfaces[1].associate_public_ip_address = PyBool(TRUE)
    /\ \E i \in LaunchTemplatesOf(1, 2) :
          /\ Len(nodes[i].props.network_interfaces) = 3
          /\ nodes[i].props.network_interfaces[1].associate_public_ip_address = PyNone
          /\ nodes[i].props.network_interfaces[3].network_card_index = PyInt(2)

\* the placement groups created for queue q
PlacementGroupsOf(q) ==
    {i \in NodesOfKind("PlacementGroup") : nodes[i].props.queue = config.queues[q].name}

\* C17: a queue gets exactly one placement group if it enables placement and
\* names no group id, and none otherwise, however many compute resources it
\* has; every launch template of a queue references the managed group of the
\* queue, or the supplied id, or no group when placement is off.
C17_PlacementGroupPerQueue ==
    Past("ComputeFleetConstruct") =>
        \A q \in 1..Len(config.queues) :
            LET placement_group == config.queues[q].placement_group
                on == placement_group.present /\ placement_group.enabled
            IN  /\ Cardinality(PlacementGroupsOf(q)) =
                      IF on /\ ~Truthy(placement_group.id) THEN 1 ELSE 0
                /\ \A c \in 1..Len(config.queues[q].compute_resources) :
                      \A i \in LaunchTemplatesOf(q, c) :
                          nodes[i].props.placement_group_name =
                              IF ~on THEN PyNone
                              ELSE IF Truthy(placement_group.id) THEN placement_group.id
                              ELSE Ref(nodes[CHOOSE p \in PlacementGroupsOf(q) : TRUE].id)

\* a queue with a managed group and two compute resources, next to a queue
\* without placement
C17_Witness ==
    /\ pc = "done"
    /\ Len(config.queues) = 2
    /\ config.queues[1].placement_group = ManagedPlacementGroup
    /\ Len(config.queues[1].compute_resources) = 2
    /\ Cardinality(NodesOfKind("PlacementGroup")) = 1
    /\ \A c \in 1..2 : \E i \in LaunchTemplatesOf(1, c) :
          nodes[i].props.placement_group_name = Ref(PlacementGroupId(config.queues[1]))
    /\ \E i \in LaunchTemplatesOf(2, 1) : nodes[i].props.placement_group_name = PyNone

\* a compute resource with more interfaces than its instance type has
TooManyInterfaces(compute_resource) ==
    compute_resource.max_network_interface_count
        > InstanceTypeInterfaces(compute_resource.instance_type)

HeadDnaKeys ==
    {"stack_name", "stack_arn", "byos_substack_arn", "raid_vol_ids", "raid_parameters",
     "disable_hyperthreading_manually", "base_os", "preinstall", "preinstall_args",
     "postinstall", "postinstall_args", "region", "efs_fs_id", "efs_shared_dir",
     "fsx_fs_id", "fsx_mount_name", "fsx_dns_name", "fsx_options", "volume",
     "scheduler", "ephemeral_dir", "ebs_shared_dirs", "proxy", "dns_domain",
     "hosted_zone", "node_type", "cluster_user", "ddb_table", "log_group_name",
     "dcv_enabled", "dcv_port", "enable_intel_hpc_platform", "cw_logging_enabled",
     "cluster_s3_bucket", "cluster_config_s3_key", "cluster_config_version",
     "instance_types_data_s3_key", "custom_node_package", "custom_awsbatchcli_package",
     "head_node_imds_secured", "run_list"}

\* the scheduler of this run made no hosted zone / no state table
HostedZoneAbsent == ~(_condition_is_slurm /\ Truthy(scheduler_resources.cluster_hosted_zone))
StateTableAbsent == ~(_condition_is_slurm /\ Truthy(scheduler_resources.dynamodb_table))

\* C19: the head node payload has the same keys under every scheduler, and
\* where the scheduler made no hosted zone or no state table, hosted_zone,
\* dns_domain and ddb_table are there with the value "NONE", neither left
\* out nor empty.
C19_AbsentSchedulerKeysAreNONE ==
    head_dna.built =>
        /\ DOMAIN head_dna \ {"built"} = HeadDnaKeys
        /\ HostedZoneAbsent => head_dna.hosted_zone = NONE /\ head_dna.dns_domain = NONE
        /\ StateTableAbsent => head_dna.ddb_table = NONE

\* ---------------------------------------------------------------- C20

\* the payloads with the log group name left out
WithoutLogGroupName(payloads) ==
    [head |-> [payloads.head EXCEPT !.log_group_name = NONE],
     compute |-> {<<p[1], [p[2] EXCEPT !.LogGroupName = NONE]>> : p \in payloads.compute}]

GeneratedLogGroupName == PyStr("/aws/parallelcluster/stack-" \o run.clock.minutes)

\* every place of the stack that names the log group carries `name`
LogGroupNamedEverywhere(name) ==
    /\ \A i \in NodesOfKind("LogGroup") : nodes[i].props.log_group_name = name
    /\ \A i \in NodesOfKind("Parameter") :
          nodes[i].id = "ClusterCWLogGroup" => nodes[i].props.default = name
    /\ head_dna.built => head_dna.log_group_name = name
    /\ \A p \in Payloads.compute : p[2].LogGroupName = name

\* C21: with logging enabled the log group, its parameter and the payload
\* entries carry the name passed in, if there is one, and nothing with this
\* run's timestamp; with none passed the name is prefix, stack name and
\* timestamp; with logging disabled there is no log group and no parameter
\* and the payload entries are "NONE".
C21_LogGroupNameKept ==
    /\ Past("_add_cluster_log_group") =>
          Cardinality(NodesOfKind("LogGroup")) = (IF config.is_cw_logging_enabled THEN 1 ELSE 0)
    /\ Past("_add_parameters") =>
          (\E i \in NodesOfKind("Parameter") : nodes[i].id = "ClusterCWLogGroup")
              <=> config.is_cw_logging_enabled
    /\ IF ~config.is_cw_logging_enabled THEN LogGroupNamedEverywhere(NONE)
       ELSE IF Truthy(run.log_group_name)
       THEN /\ LogGroupNamedEverywhere(run.log_group_name)
            /\ run.log_group_name # GeneratedLogGroupName
       ELSE LogGroupNamedEverywhere(GeneratedLogGroupName)

\* an update: the second synthesis, passed the name the first one made, has
\* built the log group, the parameter and the payloads
C21_Witness ==
    /\ pc = "done"
    /\ run.n = 2
    /\ config.is_cw_logging_enabled
    /\ run.log_group_name = PyStr("/aws/parallelcluster/stack-" \o Clocks[1].minutes)
    /\ NodesOfKind("LogGroup") # {}
    /\ Payloads.compute # {}
    /\ head_dna.log_group_name = run.log_group_name

\* ---------------------------------------------------------------- C22

\* C22: the cleanup role is made exactly when no lambda functions role is
\* supplied or the supplied one is implied; when it is not made, the cleanup
\* function runs with the supplied role and no role is given any policy
\* statement, the fleet termination ones included.
C22_CleanupRoleIffNotSupplied ==
    Past("_add_cleanup_resources_lambda") =>
        /\ HasNode("CleanupResourcesRole")
              <=> (\/ ~Truthy(config.lambda_functions_role.value)
                   \/ config.lambda_functions_role.implied)
        /\ ~HasNode("CleanupResourcesRole") =>
              /\ nodes[NodeIndex("CleanupResourcesFunctionConstruct")].props.execution_role
                    = config.lambda_functions_role.value
              /\ cleanup_lambda_role = PyNone
              /\ role_statements = <<>>
              /\ NodesOfKind("Role") = {}

\* a supplied role that is not implied: the function runs with it, the
\* compute fleet is built and no statement is added
C22_Witness ==
    /\ pc = "done"
    /\ HasNode("TerminateComputeFleetCustomResource")
    /\ config.lambda_functions_role = [value |-> PyStr("arn:role/user"), implied |-> FALSE]
    /\ ~HasNode("CleanupResourcesRole")
    /\ nodes[NodeIndex("CleanupResourcesFunctionConstruct")].props.execution_role
          = PyStr("arn:role/user")
    /\ role_statements = <<>>

\* ---------------------------------------------------------------- C23

\* a lookup that raises was called
LookupRaised == \E k \in 1..Len(api_calls) : api_calls[k].op \in faults.lookups

\* apply_permissions_boundary was called and raised
BoundaryRaised ==
    /\ pc \in {"done", "failed"}
    /\ error \notin LookupOps
    /\ config.iam.present
    /\ faults.permissions_boundary # "ok"

\* C23: when a lookup of the inventory or a component raises, the synthesis
\* ends with that error and returns no stack; a lookup that raised is not
\* called again.
C23_ErrorsPropagate ==
    /\ (LookupRaised \/ BoundaryRaised) => (pc = "failed" /\ error # "none")
    /\ LookupRaised => error = api_calls[Len(api_calls)].op
    /\ \A k \in 1..Len(api_calls) :
          api_calls[k].op \in faults.lookups => k = Len(api_calls)

\* ---------------------------------------------------------------- C24

\* the attributes of a resource that the stack reads
AttrNames == {"Arn", "AllocationId", "LustreMountName", "DNSName", "PrivateIp", "PrivateDnsName"}

\* the values of a sequence of network interfaces that may hold a reference
InterfaceValues(interfaces) ==
    UNION {IF "groups" \in DOMAIN interfaces[k]
           THEN Range(interfaces[k].groups)
           ELSE {interfaces[k].network_interface_id} : k \in 1..Len(interfaces)}

\* the property values of a node that may hold a reference to another node
RefValues(n) ==
    CASE n.kind \in {"SecurityGroupIngress", "SecurityGroupEgress"} ->
            {Ref(n.props.group_id)}
            \cup (IF n.props.peer_kind = "cidr_ip" THEN {} ELSE {Ref(n.props.peer)})
      [] n.kind = "NetworkInterface" -> Range(n.props.group_set)
      [] n.kind = "EIPAssociation" -> {n.props.allocation_id, n.props.network_interface_id}
      [] n.kind = "Function" -> {n.props.execution_role}
      [] n.kind = "FSxFileSystem" -> Range(n.props.security_group_ids)
      [] n.kind = "MountTarget" -> {n.props.file_system_id} \cup Range(n.props.security_groups)
      [] n.kind = "LaunchTemplate" /\ n.scope = "ComputeFleet" ->
            InterfaceValues(n.props.network_interfaces)
            \cup {n.props.placement_group_name, n.props.user_data.DynamoDBTable}
      [] n.kind = "LaunchTemplate" /\ n.scope = "root" ->
            InterfaceValues(n.props.network_interfaces)
      [] n.kind = "Instance" -> {n.props.launch_template_id}
      [] OTHER -> {}

\* v is no reference, or one to a node among the first `before` nodes
Resolved(v, before) ==
    v.t = "ref" =>
        \E j \in 1..before :
            v \in {Ref(nodes[j].id)} \cup {Attr(nodes[j].id, a) : a \in AttrNames}

\* the storage entries of the payloads are those of the finished accumulators
PayloadsSeeAllStorage ==
    /\ storage_index > Len(config.shared_storage)
    /\ head_dna.built =>
          /\ head_dna.raid_vol_ids = get_shared_storage_ids_by_type("RAID")
          /\ head_dna.efs_fs_id = get_shared_storage_ids_by_type("EFS")
          /\ head_dna.fsx_fs_id = get_shared_storage_ids_by_type("FSX")
          /\ head_dna.volume = get_shared_storage_ids_by_type("EBS")
          /\ head_dna.raid_parameters = get_shared_storage_options_by_type("RAID")
          /\ head_dna.efs_shared_dir = get_shared_storage_options_by_type("EFS")
          /\ head_dna.fsx_options = get_shared_storage_options_by_type("FSX")
          /\ head_dna.ebs_shared_dirs = get_shared_storage_options_by_type("EBS")
    /\ \A p \in Payloads.compute :
          /\ p[2].EFSId = get_shared_storage_ids_by_type("EFS")
          /\ p[2].FSXId = get_shared_storage_ids_by_type("FSX")
          /\ p[2].RAIDOptions = get_shared_storage_options_by_type("RAID")
          /\ p[2].EFSOptions = get_shared_storage_options_by_type("EFS")
          /\ p[2].FSXOptions = get_shared_storage_options_by_type("FSX")
          /\ p[2].EbsSharedDirs = get_shared_storage_options_by_type("EBS")

\* C24: at every step every dependency edge and every reference of a node
\* points to a node added before it, so the graph has no cycle; and once a
\* compute launch template or the head node payload exists every storage
\* declaration has been processed and the payloads carry the finished id
\* lists and option strings.
C24_EdgesPointBack ==
    /\ \A e \in deps :
          /\ NodeIndex(e[1]) # 0
          /\ NodeIndex(e[2]) # 0
          /\ NodeIndex(e[2]) < NodeIndex(e[1])
    /\ \A i \in 1..Len(nodes) : \A v \in RefValues(nodes[i]) : Resolved(v, i - 1)
    /\ head_dna.built =>
          \A v \in {head_dna.ddb_table, head_dna.hosted_zone, head_dna.byos_substack_arn} :
              Resolved(v, Len(nodes))
    /\ (head_dna.built \/ Payloads.compute # {}) => PayloadsSeeAllStorage

\* a finished slurm cluster with storage: edges from the open egress rule and
\* from the head node, launch templates that name a placement group and the
\* state table, and payloads that carry the file system ids
C24_Witness ==
    /\ pc = "done"
    /\ <<"ComputeSecurityGroupNormalEgress", "ComputeSecurityGroupEgress">> \in deps
    /\ <<"HeadNode", "ComputeFleet">> \in deps
    /\ NodesOfKind("MountTarget") # {}
    /\ \E p \in Payloads.compute :
          /\ p[2].DynamoDBTable = Ref("DynamoDBTable")
          /\ p[2].EFSId = PyToks(Str(Ref("EFS0")))
    /\ head_dna.fsx_fs_id # NONE

\* ---------------------------------------------------------------- C25

\* C25: no step of the synthesis changes the config: its head node security
\* groups, additional security groups and compute security groups stay as
\* they were passed in.
C25_ConfigNeverMutated == [][config' = config]_vars

\* ---------------------------------------------------------------- C28

\* no value occurs twice in the sequence
NoDuplicates(seq) == \A i, j \in 1..Len(seq) : seq[i] = seq[j] => i = j

\* C28: the security groups of the head node network interface and those of
\* every additional interface of the head node launch template are the same
\* list, with no group in it twice.
C28_HeadGroupListsEqual ==
    Past("_add_head_node") =>
        LET eni == nodes[NodeIndex("HeadNodeENI")]
            interfaces == nodes[NodeIndex("HeadNodeLaunchTemplate")].props.network_interfaces
        IN  /\ NoDuplicates(eni.props.group_set)
            /\ \A k \in 2..Len(interfaces) :
                  /\ interfaces[k].groups = eni.props.group_set
                  /\ NoDuplicates(interfaces[k].groups)

\* ---------------------------------------------------------------- C26

\* C26: the compute fleet is built with exactly one launch template for
\* every compute resource of every queue, and the templates of two different
\* compute resources differ in resource id and in name, also when the two are
\* of one queue and one instance type or when queue name and instance type
\* concatenate to the same string; no construction ends on a collision.
C26_OneTemplatePerComputeResource ==
    /\ error # "duplicate construct id"
    /\ Past("ComputeFleetConstruct") =>
          /\ \A qc \in ComputeResources : Cardinality(LaunchTemplatesOf(qc[1], qc[2])) = 1
          /\ \A qc1, qc2 \in ComputeResources :
                qc1 # qc2 =>
                    \A i \in LaunchTemplatesOf(qc1[1], qc1[2]), j \in LaunchTemplatesOf(qc2[1], qc2[2]) :
                        /\ nodes[i].id # nodes[j].id
                        /\ nodes[i].props.launch_template_name
                              # nodes[j].props.launch_template_name

\* ---------------------------------------------------------------- C27

\* the rules of the kind on the compute group whose peer is `peer`
ComputeGroupRules(kind, peer_kind, peer) ==
    {i \in NodesOfKind(kind) :
        /\ nodes[i].props.group_id = "ComputeSecurityGroup"
        /\ nodes[i].props.peer_kind = peer_kind
        /\ nodes[i].props.peer = peer}

\* C27: once the security groups are made, if some queue has no security
\* groups of its own, whether the head node has or not, there are the
\* compute group, its ingress rule from itself, its egress rule to itself
\* and its egress rule to 0.0.0.0/0, the last with a dependency edge on
\* the egress rule to itself; if every queue has its own, there is none of
\* them.
C27_ComputeGroupRules ==
    Past("_add_security_groups") =>
        LET self_ingress == ComputeGroupRules("SecurityGroupIngress", "source_security_group_id",
                                              "ComputeSecurityGroup")
            self_egress == ComputeGroupRules("SecurityGroupEgress", "destination_security_group_id",
                                             "ComputeSecurityGroup")
            open_egress == ComputeGroupRules("SecurityGroupEgress", "cidr_ip", "0.0.0.0/0")
        IN  IF \E q \in 1..Len(config.queues) : config.queues[q].security_groups = <<>>
            THEN /\ HasNode("ComputeSecurityGroup")
                 /\ Cardinality(self_ingress) = 1
                 /\ Cardinality(self_egress) = 1
                 /\ Cardinality(open_egress) = 1
                 /\ \A i \in open_egress : \A j \in self_egress :
                       <<nodes[i].id, nodes[j].id>> \in deps
            ELSE /\ ~HasNode("ComputeSecurityGroup")
                 /\ self_ingress = {} /\ self_egress = {} /\ open_egress = {}
                 /\ \A e \in deps : e[1] # "ComputeSecurityGroupNormalEgress"

\* a compute group next to user supplied head node groups, with its rules
C27_Witness ==
    /\ pc = "done"
    /\ ~HasNode("HeadNodeSecurityGroup")
    /\ HasNode("ComputeSecurityGroup")
    /\ HasNode("ComputeSecurityGroupNormalEgress")
    /\ <<"ComputeSecurityGroupNormalEgress", "ComputeSecurityGroupEgress">> \in deps
\* -- id lists and option records over several declarations

\* the declarations of the type among the first n declarations of the config,
\* in order, a RAID declaration once per volume
RECURSIVE ProcessedOfType(_, _)
ProcessedOfType(storage_type, n) ==
    IF n = 0 THEN <<>>
    ELSE LET storage == config.shared_storage[n]
         IN  ProcessedOfType(storage_type, n - 1)
             \o (IF storage.shared_storage_type # storage_type THEN <<>>
                 ELSE IF storage_type = "RAID"
                      THEN [k \in 1..storage.raid.number_of_volumes |-> storage]
                      ELSE <<storage>>)

\* the option record of the last declaration of the type, and of it alone
LastOptionRecord(storage_type) ==
    LET last == LastDeclaration(storage_type)
        id == RecordedId(storage_type, Len(shared_storage_mappings[storage_type]))
    IN  CASE storage_type = "FSX" -> Join(FsxOptionItems(last, id))
          [] storage_type = "EFS" -> Join(EfsOptionItems(last, id))
          [] OTHER -> Join(RaidOptionItems(last))

\* C29: after any number of storage declarations, the id list of each storage
\* type holds one id per declaration of that type (N per RAID declaration of
\* N volumes) in declaration order, while the FSx, EFS and RAID option string
\* and the FSx MountName and DNSName attributes are those of the last
\* declaration of that type only.
C29_LastDeclarationWins ==
    LET processed == IF pc = "_add_shared_storage" \/ Past("_add_shared_storage")
                     THEN storage_index - 1 ELSE 0
    IN  /\ \A storage_type \in SharedStorageTypes :
              [k \in 1..Len(shared_storage_mappings[storage_type]) |-> Declared(storage_type, k)]
                  = ProcessedOfType(storage_type, processed)
        /\ \A storage_type \in OptionTypes :
              shared_storage_options[storage_type] =
                  IF shared_storage_mappings[storage_type] = <<>> THEN <<>>
                  ELSE LastOptionRecord(storage_type)
        /\ \A storage_type \in OptionTypes :
              Rendered(storage_type) =>
                  /\ Len(Split(shared_storage_options[storage_type])) = FieldCount(storage_type)
                  /\ OptionField(storage_type, 1) = LastDeclaration(storage_type).mount_dir.v
        /\ shared_storage_attributes.present = (shared_storage_mappings["FSX"] # <<>>)
        /\ shared_storage_mappings["FSX"] # <<>> =>
              LET last == LastDeclaration("FSX")
                  id == "FSX" \o ToString(Len(shared_storage_mappings["FSX"]) - 1)
              IN  /\ shared_storage_attributes.MountName =
                        IF FsxCreated(last) THEN Attr(id, "LustreMountName")
                        ELSE last.existing_mount_name
                  /\ shared_storage_attributes.DNSName = last.existing_dns_name

\* two FSx declarations processed, an existing file system before one to
\* create: two ids, the record and the attributes being those of the second
C29_Witness ==
    /\ pc = "done"
    /\ Len(shared_storage_mappings["FSX"]) = 2
    /\ Declared("FSX", 1).existing_mount_name = PyStr("mnt")
    /\ RecordedId("FSX", 1) = PyStr("fs-lustre")
    /\ FsxCreated(Declared("FSX", 2))
    /\ RecordedId("FSX", 2) = Ref("FSX1")
    /\ shared_storage_attributes.MountName = Attr("FSX1", "LustreMountName")
    /\ shared_storage_attributes.DNSName = PyNone
    /\ OptionField("FSX", 2) = Str(Ref("FSX1"))
    /\ Len(Split(shared_storage_options["FSX"])) = 19
\* -- teardown order of the compute fleet

\* the resources that must outlive the instances of the fleet: the managed
\* placement groups and the managed compute security group
FleetTeardownTargets ==
    NodesOfKind("PlacementGroup")
    \cup {i \in NodesOfKind("SecurityGroup") : nodes[i].id = "ComputeSecurityGroup"}

\* C30: whenever the compute fleet exists, its fleet-termination custom resource
\* exists, has a dependency edge on every managed placement group and on the
\* managed compute security group when there is one, and was added to the graph
\* after all of them; it has no other dependency.
C30_TerminateDependsOnFleetResources ==
    HasNode("ComputeFleet") =>
        /\ Cardinality(NodesWithId("TerminateComputeFleetCustomResource")) = 1
        /\ \A i \in FleetTeardownTargets :
              /\ <<"TerminateComputeFleetCustomResource", nodes[i].id>> \in deps
              /\ i < NodeIndex("TerminateComputeFleetCustomResource")
        /\ \A d \in deps :
              d[1] = "TerminateComputeFleetCustomResource" =>
                  \E i \in FleetTeardownTargets : nodes[i].id = d[2]
        /\ \A q \in 1..Len(config.queues) :
              PlacementGroupManaged(config.queues[q]) => PlacementGroupsOf(q) # {}
        /\ ComputeSecurityGroupCreated => HasNode("ComputeSecurityGroup")

\* a fleet with a managed placement group and the managed compute security
\* group, both depended on by the fleet-termination custom resource
C30_Witness ==
    /\ pc = "done"
    /\ HasNode("ComputeFleet")
    /\ Len(config.queues) = 2
    /\ Cardinality(NodesOfKind("PlacementGroup")) = 1
    /\ HasNode("ComputeSecurityGroup")
    /\ Cardinality({d \in deps : d[1] = "TerminateComputeFleetCustomResource"}) = 2
    /\ <<"TerminateComputeFleetCustomResource", "ComputeSecurityGroup">> \in deps
    /\ NodeIndex("ComputeSecurityGroup") < NodeIndex("TerminateComputeFleetCustomResource")
====
